---- MODULE Spec2Model ----
(***************************************************************************)
(* Gosh-Fetch integration layer: the download service bridge               *)
(* (gosh-fetch-core/src/service.rs), the downloads store                   *)
(* (gosh-fetch-core/src/db/downloads.rs) and the start-up restoration of   *)
(* the front-ends (gosh-fetch-gtk/src/window/imp.rs,                       *)
(* gosh-fetch-qt/src/qml.rs).                                              *)
(***************************************************************************)
EXTENDS Integers, Sequences, FiniteSets, TLC

(***************************************************************************)
(* Bounds of the model.                                                    *)
(***************************************************************************)
\* capacity of the command channel (async_channel::bounded, scaled down)
CmdCap == 2
\* capacity of the event channel (async_channel::bounded, scaled down)
UiCap == 2
\* capacity of the engine's broadcast subscription buffer
EngCap == 1
\* number of send_blocking calls the UI thread makes
MaxCmds == 3
\* number of events the engine emits
MaxEvents == 2
\* number of distinct download identifiers
MaxGid == 1

Gids == 1..MaxGid

None == "none"

(***************************************************************************)
(* EngineCommand and UiMessage (service.rs).                               *)
(***************************************************************************)
AddKinds == {"AddDownload", "AddMagnet", "AddTorrent"}
GidKinds == {"Pause", "Resume", "Remove"}
PlainKinds == {"PauseAll", "ResumeAll", "UpdateConfig", "RefreshDownloads",
               "RefreshStats", "Shutdown"}

\* the url, magnet uri or torrent data of an add command submitted by the user
UserArg(kind) ==
    CASE kind = "AddDownload" -> <<"url", 0>>
      [] kind = "AddMagnet" -> <<"magnet", 0>>
      [] kind = "AddTorrent" -> <<"data", 0>>
      [] OTHER -> <<>>

EngineCommand ==
    {[kind |-> k, gid |-> 0, arg |-> UserArg(k)] : k \in AddKinds \cup PlainKinds}
    \cup [kind : GidKinds, gid : Gids, arg : {<<>>}]

\* the error texts of Failed events
ErrorTexts == {<<"t", "i", "m", "e", "o", "u", "t">>, <<"4", "0", "4">>}

\* DownloadEvent of the engine, as far as handle_engine_event tells them apart
DownloadEvent ==
    [kind : {"Completed", "Progress", "Removed", "Other"}, gid : Gids, error : {<<>>}]
    \cup [kind : {"Failed"}, gid : Gids, error : ErrorTexts]

UiMessage(kind, gid, src, n) == [kind |-> kind, gid |-> gid, src |-> src, n |-> n]

\* no message is held by a suspended send, no command by a parked send_blocking
NoMessage == UiMessage(None, 0, None, 0)
NoCommand == [kind |-> None, gid |-> 0, arg |-> <<>>, n |-> 0]

VARIABLES
    \* command channel: buffered commands, each tagged with its submission number n
    cmdQ,
    \* event channel: buffered UiMessages
    uiQ,
    \* engine broadcast subscription: buffered events, and whether the receiver lagged
    engQ, lagged,
    \* bridge loop position: "start", "select", "send" (suspended in send().await), "done"
    pc,
    \* the UiMessage the loop is suspended on while pc = "send"
    pending,
    \* UI thread position: "idle", "blocked" (inside send_blocking), "quit" (senders dropped)
    uiPc,
    \* the command the UI thread is blocked on while uiPc = "blocked"
    uiPending,
    \* gids the engine reports a status for
    engine,
    \* counters of submissions and engine emissions
    nextCmd, nextEvt,
    \* history: number of commands the command channel has accepted
    enqueued,
    \* history: the command the loop dequeued last, with its adapter outcome
    handled,
    \* history: the engine event the loop received last
    received,
    \* history: the number of the last command-derived and of the last
    \* event-derived message the event channel accepted, and how many EngineReady
    emitted

bridgeVars == <<cmdQ, uiQ, engQ, lagged, pc, pending, uiPc, uiPending, engine,
                nextCmd, nextEvt, enqueued, handled, received, emitted>>

VARIABLES
    \* the downloads table: a set of rows
    store,
    \* the row id the next inserted row gets
    nextRowId,
    \* history: the DownloadsDb operation executed last, with its argument and result
    dbOp

dbVars == <<store, nextRowId, dbOp>>

VARIABLES
    \* position of the start-up restoration: "init", "loop", "done"
    restorePc,
    \* the records get_incomplete returned that restoration has not visited yet
    restoreList,
    \* history: the commands restoration has passed to send_blocking, in order
    submitted

restoreVars == <<restorePc, restoreList, submitted>>

VARIABLES
    \* the trackers table as the connection sees it: the urls in insertion order
    trackers,
    \* tracker_meta.last_updated of the row with id 1 (<<>> is NULL)
    last_updated,
    \* the mutex around the connection: "free" or the operation holding it
    dbLock,
    \* position of the running TrackersDb::replace_all: "none", "delete",
    \* "insert", "update", "commit"
    txPc,
    \* the trackers replace_all has not inserted yet
    txInput,
    \* what the open transaction restores when it is rolled back, or None
    journal,
    \* history: the tracker list and timestamp of the last successful commit
    committed,
    \* history: the TrackersDb operation that returned last, with its result
    trackerOp

trackerVars == <<trackers, last_updated, dbLock, txPc, txInput, journal, committed,
                 trackerOp>>

VARIABLES
    \* the front-end that is running: "gtk", "cosmic" or "qt"
    frontend,
    \* the records of the front-end's list of current downloads
    downloads_list,
    \* the gids of the front-end's list of completed downloads, newest first
    completed_list,
    \* the signals the Qt controller has raised towards QML, oldest first
    signals,
    \* history: the UiMessage handled last and how its store call went
    uiOp,
    \* number of the next UiMessage the front-end handles
    nextUi

frontVars == <<frontend, downloads_list, completed_list, signals, uiOp, nextUi>>

VARIABLES
    \* the state the engine holds for each download
    engineStates,
    \* the bulk operation of the adapter that is running: "idle", "pause_all",
    \* "resume_all"
    adapterPc,
    \* the statuses its loop has not visited yet
    statuses,
    \* history: engineStates when the running or last bulk operation read the
    \* engine's list
    atSnapshot,
    \* history: the engine calls the running or last bulk operation has issued
    calls

adapterVars == <<engineStates, adapterPc, statuses, atSnapshot, calls>>

VARIABLES
    \* the ids of the transfers the engine has created through add_http
    transfers,
    \* number of times the engine's add_http has been invoked
    add_http_calls,
    \* history: the AddDownload request handled last: its number, the probe
    \* responses, what add_download returned and what handle_command sent
    addOp

addVars == <<transfers, add_http_calls, addOp>>

VARIABLES
    \* history: the call of parse_speed made last: its number, argument and outcome
    speedOp

VARIABLES
    \* the settings table: the value stored under each key that has a row
    settings_table,
    \* history: the call of SettingsDb::load made last: its number, the
    \* directories the platform reported and the Settings value returned; and
    \* the number of calls of save and the Settings value of the one that
    \* returned Ok last, if any
    settingsOp,
    \* the Qt controller's AppState: its in-memory settings, and as history the
    \* call of set_setting made last: its number, key, value and whether the
    \* store write succeeded
    controller

settingsVars == <<settings_table, settingsOp, controller>>

VARIABLES
    \* the front-end's entry point (GTK activate, Qt ensure_state): pc is "idle"
    \* or the entry point the UI thread is inside of, window and app_state tell
    \* whether self.window and APP_STATE are set, threads counts the service
    \* threads activate has spawned that have not run yet, loops the calls of
    \* DownloadService::spawn, calls the invocations of the entry point
    entry

VARIABLES
    \* the TrackerUpdater: its last_update and trackers, the wall clock (now),
    \* and as history the step made last (op), what needs_update returned, and
    \* the time of the last fetch_trackers that succeeded or set_trackers, if any,
    \* and whether a fetch_trackers has failed since
    updater

sideVars == <<trackerVars, frontVars, adapterVars, addVars, speedOp, settingsVars, entry,
              updater>>

appVars == <<dbVars, restoreVars, sideVars>>

vars == <<bridgeVars, dbVars, restoreVars, sideVars>>

(***************************************************************************)
(* Channel primitives.                                                     *)
(***************************************************************************)
\* recv taking the newest buffered item instead
recv_lifo(q) == [item |-> q[Len(q)], rest |-> SubSeq(q, 1, Len(q) - 1)]

\* Receiver::recv on a non-empty channel: the oldest buffered item
recv(q) == [item |-> Head(q), rest |-> Tail(q)]

\* send placing the item ahead of the buffered ones
send_front(q, m) == <<m>> \o q

\* Sender::send once there is room: the item goes to the back of the buffer
send(q, m) == Append(q, m)

InitBridge ==
    /\ cmdQ = <<>>
    /\ uiQ = <<>>
    /\ engQ = <<>>
    /\ lagged = FALSE
    /\ pc = "start"
    /\ pending = NoMessage
    /\ uiPc = "idle"
    /\ uiPending = NoCommand
    /\ engine = {}
    /\ nextCmd = 1
    /\ nextEvt = 1
    /\ enqueued = 0
    /\ handled = [n |-> 0, kind |-> None, err |-> FALSE, reply |-> <<>>]
    /\ received = [n |-> 0, kind |-> None, reply |-> <<>>]
    /\ emitted = [cmd |-> 0, evt |-> 0, init |-> 0]

InitDb ==
    /\ store = {}
    /\ nextRowId = 1
    /\ dbOp = [op |-> "open"]

InitRestore ==
    /\ restorePc = "done"
    /\ restoreList = <<>>
    /\ submitted = <<>>

\* the trackers table and tracker_meta as the schema creates them
InitTrackers ==
    /\ trackers = <<>>
    /\ last_updated = <<>>
    /\ dbLock = "free"
    /\ txPc = "none"
    /\ txInput = <<>>
    /\ journal = None
    /\ committed = [trackers |-> <<>>, last_updated |-> <<>>]
    /\ trackerOp = [op |-> "open"]

\* a front-end before its first UiMessage
InitFront ==
    /\ frontend = "gtk"
    /\ downloads_list = {}
    /\ completed_list = <<>>
    /\ signals = <<>>
    /\ uiOp = [kind |-> "none", gid |-> 0, db |-> "none", list |-> {}]
    /\ nextUi = 1

\* an adapter whose engine has no download yet
InitAdapter ==
    /\ engineStates = [g \in {} |-> "Queued"]
    /\ adapterPc = "idle"
    /\ statuses = <<>>
    /\ atSnapshot = engineStates
    /\ calls = <<>>

\* no AddDownload request has been handled
InitAdd ==
    /\ transfers = {}
    /\ add_http_calls = 0
    /\ addOp = [n |-> 0, probe |-> None, ok |-> TRUE, error |-> None, field |-> None,
                resolved |-> FALSE, get_sent |-> FALSE, reply |-> <<>>]

\* parse_speed has not been called
InitSpeed == speedOp = [n |-> 0, s |-> <<>>, result |-> None]

\* SettingsDb::load has not been called
InitLoad ==
    /\ settingsOp = [n |-> 0, home |-> <<>>, download_dir |-> <<>>, result |-> None,
                     saves |-> 0, saved |-> <<>>]
    /\ controller = [settings |-> None, n |-> 0, key |-> None, value |-> <<>>, ok |-> TRUE]

\* a database whose settings table has no row
InitSettings == settings_table = <<>> /\ InitLoad

\* an application whose entry point has run and has created the bridge loop
InitEntry ==
    entry = [pc |-> "idle", window |-> TRUE, app_state |-> TRUE, threads |-> 0,
             loops |-> 1, calls |-> 1]

\* TrackerUpdater::new, at the start of the clock
InitUpdater ==
    updater = [now |-> 0, last_update |-> <<>>, trackers |-> <<>>, op |-> "new",
               result |-> FALSE, done |-> <<>>, failed |-> FALSE]

InitSide ==
    /\ InitTrackers /\ InitFront /\ InitAdapter /\ InitAdd /\ InitSpeed /\ InitSettings
    /\ InitEntry /\ InitUpdater

Init == InitBridge /\ InitDb /\ InitRestore /\ InitSide

(***************************************************************************)
(* The UI thread: command submission and event consumption.                *)
(***************************************************************************)
\* Sender::send_blocking as called by every front-end call site: it returns at
\* once when the channel has room or is closed (the loop is gone), and parks the
\* calling thread while the channel is full.
SendBlocking(cmd) ==
    IF pc = "done"
      THEN UNCHANGED <<cmdQ, enqueued, uiPc, uiPending>>
      ELSE IF Len(cmdQ) < CmdCap
        THEN /\ cmdQ' = send(cmdQ, cmd)
             /\ enqueued' = enqueued + 1
             /\ UNCHANGED <<uiPc, uiPending>>
        ELSE /\ uiPc' = "blocked"
             /\ uiPending' = cmd
             /\ UNCHANGED <<cmdQ, enqueued>>

\* a command of the user, submitted once start-up is over
send_blocking(c) ==
    /\ uiPc = "idle"
    /\ restorePc = "done"
    /\ nextCmd <= MaxCmds
    /\ nextCmd' = nextCmd + 1
    /\ SendBlocking([kind |-> c.kind, gid |-> c.gid, arg |-> c.arg, n |-> nextCmd])
    /\ UNCHANGED <<uiQ, engQ, lagged, pc, pending, engine, nextEvt, handled,
                   received, emitted>>
    /\ UNCHANGED appVars

\* the parked send_blocking call completes: a slot was freed, or the loop ended
send_blocking_wake ==
    /\ uiPc = "blocked"
    /\ pc = "done" \/ Len(cmdQ) < CmdCap
    /\ uiPc' = "idle"
    /\ uiPending' = NoCommand
    /\ IF pc = "done"
         THEN UNCHANGED <<cmdQ, enqueued>>
         ELSE /\ cmdQ' = send(cmdQ, uiPending)
              /\ enqueued' = enqueued + 1
    /\ UNCHANGED <<uiQ, engQ, lagged, pc, pending, engine, nextCmd, nextEvt,
                   handled, received, emitted>>
    /\ UNCHANGED appVars

\* the UI takes the next UiMessage off the event channel; it runs on the UI
\* thread (glib future, Qt poll), so only while that thread is not parked
ui_recv ==
    /\ uiPc = "idle"
    /\ restorePc = "done"
    /\ uiQ # <<>>
    /\ uiQ' = recv(uiQ).rest
    /\ UNCHANGED <<cmdQ, engQ, lagged, pc, pending, uiPc, uiPending, engine,
                   nextCmd, nextEvt, enqueued, handled, received, emitted>>
    /\ UNCHANGED appVars

\* the application exits: the command senders and the event receiver are dropped
ui_quit ==
    /\ uiPc = "idle"
    /\ restorePc = "done"
    /\ uiPc' = "quit"
    /\ uiQ' = <<>>
    /\ UNCHANGED <<cmdQ, engQ, lagged, pc, pending, uiPending, engine, nextCmd,
                   nextEvt, enqueued, handled, received, emitted>>
    /\ UNCHANGED appVars

(***************************************************************************)
(* The engine's notification stream.                                       *)
(***************************************************************************)
\* the engine broadcasts an event; a full subscription buffer loses its oldest
\* event and the receiver's next recv reports the lag as an error
engine_emit(e) ==
    /\ nextEvt <= MaxEvents
    /\ nextEvt' = nextEvt + 1
    /\ LET ev == [kind |-> e.kind, gid |-> e.gid, error |-> e.error, n |-> nextEvt] IN
         IF Len(engQ) < EngCap
           THEN engQ' = send(engQ, ev) /\ UNCHANGED lagged
           ELSE engQ' = send(Tail(engQ), ev) /\ lagged' = TRUE
    /\ UNCHANGED <<cmdQ, uiQ, pc, pending, uiPc, uiPending, engine, nextCmd,
                   enqueued, handled, received, emitted>>
    /\ UNCHANGED appVars

(***************************************************************************)
(* The bridge loop (DownloadService::spawn).                               *)
(***************************************************************************)
\* the history of the event channel once it has accepted m
Emitted(m) ==
    [emitted EXCEPT ![m.src] = IF m.src = "init" THEN @ + 1 ELSE m.n]

\* ui_sender.send(m).await: the message is accepted when the channel has room,
\* lost when the receiver is gone, and the loop is suspended while it is full
ui_send(m) ==
    IF uiPc = "quit"
      THEN pc' = "select" /\ pending' = NoMessage /\ UNCHANGED <<uiQ, emitted>>
      ELSE IF Len(uiQ) < UiCap
        THEN /\ uiQ' = send(uiQ, m)
             /\ emitted' = Emitted(m)
             /\ pc' = "select"
             /\ pending' = NoMessage
        ELSE /\ pc' = "send"
             /\ pending' = m
             /\ UNCHANGED <<uiQ, emitted>>

\* the messages a handler sends: none leaves the loop in the select
ui_send_all(ms) ==
    IF ms = <<>>
      THEN pc' = "select" /\ pending' = NoMessage /\ UNCHANGED <<uiQ, emitted>>
      ELSE ui_send(ms[1])

\* a loop that enters its select without announcing itself
spawn_silent ==
    /\ pc = "start"
    /\ entry.loops > 0
    /\ pc' = "select"
    /\ UNCHANGED <<cmdQ, uiQ, engQ, lagged, pending, uiPc, uiPending, engine, nextCmd,
                   nextEvt, enqueued, handled, received, emitted>>
    /\ UNCHANGED appVars

\* subscribe to the engine, then announce EngineReady
spawn ==
    /\ pc = "start"
    /\ entry.loops > 0
    /\ ui_send(UiMessage("EngineReady", 0, "init", 0))
    /\ UNCHANGED <<cmdQ, engQ, lagged, uiPc, uiPending, engine, nextCmd, nextEvt,
                   enqueued, handled, received>>
    /\ UNCHANGED appVars

\* the suspended send().await is resumed
ui_send_resume ==
    /\ pc = "send"
    /\ uiPc = "quit" \/ Len(uiQ) < UiCap
    /\ ui_send(pending)
    /\ UNCHANGED <<cmdQ, engQ, lagged, uiPc, uiPending, engine, nextCmd, nextEvt,
                   enqueued, handled, received>>
    /\ UNCHANGED appVars

(***************************************************************************)
(* handle_command: the adapter call of each command and the message the    *)
(* handler sends for its outcome.  The engine is opaque: an adapter call   *)
(* may succeed or fail, and a download just added may already have no      *)
(* status.                                                                 *)
(***************************************************************************)
\* outcomes of the adapter call of cmd: ok, the gid concerned, and whether
\* get_status reports a status for it afterwards
AdapterResults(cmd) ==
    CASE cmd.kind \in AddKinds ->
           {[ok |-> FALSE, gid |-> 0, status |-> FALSE]}
           \cup [ok : {TRUE}, gid : Gids \ engine, status : BOOLEAN]
      [] cmd.kind \in {"Pause", "Resume"} ->
           [ok : BOOLEAN, gid : {cmd.gid}, status : {cmd.gid \in engine}]
      [] cmd.kind = "Remove" ->
           [ok : {FALSE} \cup {cmd.gid \in engine}, gid : {cmd.gid}, status : {FALSE}]
      [] cmd.kind = "UpdateConfig" ->
           [ok : BOOLEAN, gid : {0}, status : {FALSE}]
      [] OTHER ->
           \* pause_all, resume_all always return Ok; get_all, get_global_stats cannot fail
           {[ok |-> TRUE, gid |-> 0, status |-> FALSE]}

\* the engine's tracked downloads after the adapter call
EngineAfter(cmd, res) ==
    CASE cmd.kind \in AddKinds /\ res.ok /\ res.status -> engine \cup {res.gid}
      [] cmd.kind = "Remove" /\ res.ok -> engine \ {cmd.gid}
      [] OTHER -> engine

\* handle_command swallowing the adapter's error
Reply_silent(cmd, res) ==
    CASE cmd.kind \in AddKinds /\ res.ok /\ res.status ->
           <<UiMessage("DownloadAdded", res.gid, "cmd", cmd.n)>>
      [] cmd.kind = "Remove" /\ res.ok ->
           <<UiMessage("DownloadRemoved", cmd.gid, "cmd", cmd.n)>>
      [] cmd.kind = "RefreshDownloads" ->
           <<UiMessage("DownloadsList", 0, "cmd", cmd.n)>>
      [] cmd.kind = "RefreshStats" ->
           <<UiMessage("StatsUpdated", 0, "cmd", cmd.n)>>
      [] OTHER -> <<>>

\* the UiMessages handle_command sends for cmd when its adapter call ends in res
Reply(cmd, res) ==
    CASE cmd.kind \in AddKinds ->
           IF res.ok
             THEN IF res.status
                    THEN <<UiMessage("DownloadAdded", res.gid, "cmd", cmd.n)>>
                    ELSE <<>>
             ELSE <<UiMessage("Error", 0, "cmd", cmd.n)>>
      [] cmd.kind \in {"Pause", "Resume", "PauseAll", "ResumeAll", "UpdateConfig"} ->
           IF res.ok THEN <<>> ELSE <<UiMessage("Error", 0, "cmd", cmd.n)>>
      [] cmd.kind = "Remove" ->
           IF res.ok
             THEN <<UiMessage("DownloadRemoved", cmd.gid, "cmd", cmd.n)>>
             ELSE <<UiMessage("Error", 0, "cmd", cmd.n)>>
      [] cmd.kind = "RefreshDownloads" ->
           <<UiMessage("DownloadsList", 0, "cmd", cmd.n)>>
      [] cmd.kind = "RefreshStats" ->
           <<UiMessage("StatsUpdated", 0, "cmd", cmd.n)>>
      [] OTHER -> <<>>

\* the kinds of a sequence of UiMessages
Kinds(ms) == [i \in 1..Len(ms) |-> ms[i].kind]

handle_command(cmd, res) ==
    /\ engine' = EngineAfter(cmd, res)
    /\ handled' = [n |-> cmd.n, kind |-> cmd.kind, err |-> ~res.ok,
                   reply |-> Kinds(Reply(cmd, res))]
    /\ ui_send_all(Reply(cmd, res))

\* a select without the Shutdown arm
IsShutdown_never(cmd) == FALSE

\* the match arm of the select that ends the loop
IsShutdown(cmd) == cmd.kind = "Shutdown"

\* a select that polls the event branch first and takes the command branch
\* only when no event is ready
recv_cmd_biased ==
    /\ pc = "select"
    /\ cmdQ # <<>>
    /\ engQ = <<>> /\ ~lagged
    /\ LET r == recv(cmdQ) IN
         IF IsShutdown(r.item)
           THEN /\ pc' = "done"
                /\ cmdQ' = <<>>
                /\ handled' = [n |-> r.item.n, kind |-> r.item.kind,
                                err |-> FALSE, reply |-> <<>>]
                /\ UNCHANGED <<uiQ, pending, engine, emitted>>
           ELSE /\ cmdQ' = r.rest
                /\ \E res \in AdapterResults(r.item) : handle_command(r.item, res)
    /\ UNCHANGED <<engQ, lagged, uiPc, uiPending, nextCmd, nextEvt, enqueued, received>>
    /\ UNCHANGED appVars

\* select branch: cmd_receiver.recv() is ready
recv_cmd ==
    /\ pc = "select"
    /\ cmdQ # <<>>
    /\ LET r == recv(cmdQ) IN
         IF IsShutdown(r.item)
           THEN /\ pc' = "done"
                /\ cmdQ' = <<>>
                /\ handled' = [n |-> r.item.n, kind |-> r.item.kind,
                                err |-> FALSE, reply |-> <<>>]
                /\ UNCHANGED <<uiQ, pending, engine, emitted>>
           ELSE /\ cmdQ' = r.rest
                /\ \E res \in AdapterResults(r.item) : handle_command(r.item, res)
    /\ UNCHANGED <<engQ, lagged, uiPc, uiPending, nextCmd, nextEvt, enqueued, received>>
    /\ UNCHANGED appVars

\* select branch: cmd_receiver.recv() fails, every sender is gone and the buffer is empty
recv_cmd_closed ==
    /\ pc = "select"
    /\ cmdQ = <<>>
    /\ uiPc = "quit"
    /\ pc' = "done"
    /\ UNCHANGED <<cmdQ, uiQ, engQ, lagged, pending, uiPc, uiPending, engine, nextCmd,
                   nextEvt, enqueued, handled, received, emitted>>
    /\ UNCHANGED appVars

(***************************************************************************)
(* handle_engine_event.                                                    *)
(***************************************************************************)
\* handle_engine_event forwarding without asking the engine for the status
EventReply_unchecked(ev) ==
    CASE ev.kind = "Completed" -> <<UiMessage("DownloadCompleted", ev.gid, "evt", ev.n)>>
      [] ev.kind = "Failed" ->
           <<UiMessage("DownloadFailed", ev.gid, "evt", ev.n) @@ [error |-> ev.error]>>
      [] ev.kind = "Progress" -> <<UiMessage("DownloadUpdated", ev.gid, "evt", ev.n)>>
      [] OTHER -> <<>>

\* handle_engine_event forwarding the engine's Removed event
EventReply_forward(ev) ==
    CASE ev.kind = "Completed" ->
           IF ev.gid \in engine
             THEN <<UiMessage("DownloadCompleted", ev.gid, "evt", ev.n)>> ELSE <<>>
      [] ev.kind = "Failed" ->
           <<UiMessage("DownloadFailed", ev.gid, "evt", ev.n) @@ [error |-> ev.error]>>
      [] ev.kind = "Progress" ->
           IF ev.gid \in engine
             THEN <<UiMessage("DownloadUpdated", ev.gid, "evt", ev.n)>> ELSE <<>>
      [] ev.kind = "Removed" ->
           <<UiMessage("DownloadRemoved", ev.gid, "evt", ev.n)>>
      [] OTHER -> <<>>

\* the UiMessages handle_engine_event sends for ev
EventReply(ev) ==
    CASE ev.kind = "Completed" ->
           IF ev.gid \in engine
             THEN <<UiMessage("DownloadCompleted", ev.gid, "evt", ev.n)>> ELSE <<>>
      [] ev.kind = "Failed" ->
           <<UiMessage("DownloadFailed", ev.gid, "evt", ev.n) @@ [error |-> ev.error]>>
      [] ev.kind = "Progress" ->
           IF ev.gid \in engine
             THEN <<UiMessage("DownloadUpdated", ev.gid, "evt", ev.n)>> ELSE <<>>
      [] OTHER -> <<>>

handle_engine_event(ev) ==
    /\ received' = [n |-> ev.n, kind |-> ev.kind, reply |-> Kinds(EventReply(ev))]
    /\ ui_send_all(EventReply(ev))

\* select branch: event_rx.recv() is ready with an event
recv_event ==
    /\ pc = "select"
    /\ ~lagged
    /\ engQ # <<>>
    /\ LET r == recv(engQ) IN
         /\ engQ' = r.rest
         /\ handle_engine_event(r.item)
    /\ UNCHANGED <<cmdQ, lagged, uiPc, uiPending, engine, nextCmd, nextEvt,
                   enqueued, handled>>
    /\ UNCHANGED appVars

\* select branch: event_rx.recv() is ready with an error (the receiver lagged),
\* which the loop ignores
recv_event_err ==
    /\ pc = "select"
    /\ lagged
    /\ lagged' = FALSE
    /\ UNCHANGED <<cmdQ, uiQ, engQ, pc, pending, uiPc, uiPending, engine, nextCmd,
                   nextEvt, enqueued, handled, received, emitted>>
    /\ UNCHANGED appVars

\* the events of the specification of the whole bridge: one error text
BridgeEvents == {e \in DownloadEvent : e.error \in {<<>>, <<"4", "0", "4">>}}

Next ==
    \/ \E c \in EngineCommand : send_blocking(c)
    \/ send_blocking_wake
    \/ ui_recv
    \/ ui_quit
    \/ \E e \in BridgeEvents : engine_emit(e)
    \/ spawn
    \/ ui_send_resume
    \/ recv_cmd
    \/ recv_cmd_closed
    \/ recv_event
    \/ recv_event_err

Spec == Init /\ [][Next]_vars

(***************************************************************************)
(* The bridge loop under every engine event, with the commands that add    *)
(* and remove what the engine reports a status for.                        *)
(***************************************************************************)
EventCommands == {c \in EngineCommand : c.kind \in {"AddDownload", "Remove"}}

NextEvents ==
    \/ \E c \in EventCommands : send_blocking(c)
    \/ send_blocking_wake
    \/ ui_recv
    \/ ui_quit
    \/ \E e \in DownloadEvent : engine_emit(e)
    \/ spawn
    \/ ui_send_resume
    \/ recv_cmd
    \/ recv_cmd_closed
    \/ recv_event
    \/ recv_event_err

SpecEvents == Init /\ [][NextEvents]_vars

(***************************************************************************)
(* The bridge loop under an engine that never stops emitting events.  The  *)
(* select of the loop polls its ready branches in random order             *)
(* (tokio::select! without `biased;`), so a branch that is ready again and *)
(* again is taken; a suspended send().await is woken once the channel has  *)
(* room.                                                                   *)
(***************************************************************************)
\* the commands and the events of this specification: handlers that reply
\* always, on failure only and never, and the command that ends the loop
LiveCommands ==
    {c \in EngineCommand : c.kind \in {"RefreshStats", "Pause", "Shutdown"}}

LiveEvents == {e \in BridgeEvents : e.kind \in {"Failed", "Other"}}

\* the engine broadcasts an event, at any time and without end; the events
\* are numbered cyclically
engine_emit_forever(e) ==
    /\ nextEvt' = IF nextEvt >= MaxEvents THEN 1 ELSE nextEvt + 1
    /\ LET ev == [kind |-> e.kind, gid |-> e.gid, error |-> e.error, n |-> nextEvt] IN
         IF Len(engQ) < EngCap
           THEN engQ' = send(engQ, ev) /\ UNCHANGED lagged
           ELSE engQ' = send(Tail(engQ), ev) /\ lagged' = TRUE
    /\ UNCHANGED <<cmdQ, uiQ, pc, pending, uiPc, uiPending, engine, nextCmd,
                   enqueued, handled, received, emitted>>
    /\ UNCHANGED appVars

NextLive ==
    \/ \E c \in LiveCommands : send_blocking(c)
    \/ send_blocking_wake
    \/ ui_recv
    \/ \E e \in LiveEvents : engine_emit_forever(e)
    \/ spawn
    \/ ui_send_resume
    \/ recv_cmd
    \/ recv_event
    \/ recv_event_err

\* the scheduling of the loop's task; spawn and the resumed send always
\* change pc, and the command branch always changes the command channel
Fairness ==
    /\ WF_pc(spawn)
    /\ WF_pc(ui_send_resume)
    /\ SF_cmdQ(recv_cmd)

SpecLive == Init /\ [][NextLive]_vars /\ Fairness

(***************************************************************************)
(* The downloads store (db/downloads.rs) and the Download record           *)
(* (types.rs).  Of the columns that are treated alike one stands for all:  *)
(* url for the optional text columns, created_at for the mandatory text    *)
(* columns, total_size and completed_size for the u64 columns.             *)
(***************************************************************************)
\* number of distinct gids in the store
MaxRows == 2
\* number of distinct timestamps
MaxTime == 2
\* number of rows ever inserted
MaxRowId == 3
\* width of the unsigned size fields and of the signed column they are cast to
SizeBits == 3
\* largest LIMIT passed to get_completed
MaxLimit == 2

DbGids == 1..MaxRows
Times == 1..MaxTime

\* Option<T>: <<>> is None (NULL in a column), <<x>> is Some(x)
Option(S) == {<<>>} \cup {<<x>> : x \in S}

DownloadType == {"Http", "Ftp", "Torrent", "Magnet"}
DownloadState == {"Active", "Waiting", "Paused", "Complete", "Error", "Removed"}

\* impl Display for DownloadType
DownloadType_to_string(t) ==
    CASE t = "Http" -> "http"
      [] t = "Ftp" -> "ftp"
      [] t = "Torrent" -> "torrent"
      [] t = "Magnet" -> "magnet"

\* impl From<&str> for DownloadType (the strings met are already lower case)
DownloadType_from(str) ==
    CASE str = "http" -> "Http"
      [] str = "ftp" -> "Ftp"
      [] str = "torrent" -> "Torrent"
      [] str = "magnet" -> "Magnet"
      [] OTHER -> "Http"

\* impl Display for DownloadState
DownloadState_to_string(st) ==
    CASE st = "Active" -> "active"
      [] st = "Waiting" -> "waiting"
      [] st = "Paused" -> "paused"
      [] st = "Complete" -> "complete"
      [] st = "Error" -> "error"
      [] st = "Removed" -> "removed"

\* impl From<&str> for DownloadState (the strings met are already lower case)
DownloadState_from(str) ==
    CASE str = "active" -> "Active"
      [] str = "waiting" -> "Waiting"
      [] str = "paused" -> "Paused"
      [] str = "complete" -> "Complete"
      [] str = "error" -> "Error"
      [] str = "removed" -> "Removed"
      [] OTHER -> "Waiting"

RECURSIVE Pow2(_)
Pow2(k) == IF k = 0 THEN 1 ELSE 2 * Pow2(k - 1)

\* `as i64` of an unsigned value: the same bits read as two's complement
as_i64(v) == IF v >= Pow2(SizeBits - 1) THEN v - Pow2(SizeBits) ELSE v

\* the signed column value taken as it is
as_u64_unconverted(x) == x

\* `as u64` of a signed value
as_u64(x) == IF x < 0 THEN x + Pow2(SizeBits) ELSE x

Sizes == {0, 1, Pow2(SizeBits) - 1}

(***************************************************************************)
(* The comma-separated encoding of selected_files.  A text is a sequence   *)
(* of one-character strings.                                               *)
(***************************************************************************)
Digits == <<"0", "1", "2", "3", "4", "5", "6", "7", "8", "9">>

\* usize::to_string
RECURSIVE to_string(_)
to_string(n) ==
    IF n < 10 THEN <<Digits[n + 1]>> ELSE to_string(n \div 10) \o <<Digits[(n % 10) + 1]>>

\* [String]::join(",")
RECURSIVE join(_)
join(ss) ==
    IF ss = <<>> THEN <<>>
    ELSE IF Len(ss) = 1 THEN ss[1]
    ELSE ss[1] \o <<",">> \o join(Tail(ss))

\* str::split(','): the pieces between the commas, empty pieces included
RECURSIVE split(_)
split(txt) ==
    IF \A i \in 1..Len(txt) : txt[i] # ","
      THEN <<txt>>
      ELSE LET k == CHOOSE i \in 1..Len(txt) :
                        txt[i] = "," /\ \A j \in 1..(i - 1) : txt[j] # ","
           IN <<SubSeq(txt, 1, k - 1)>> \o split(SubSeq(txt, k + 1, Len(txt)))

DigitValue(c) == CHOOSE v \in 0..9 : Digits[v + 1] = c

\* str::parse::<usize>().ok(): Some(value) for a non-empty run of digits
RECURSIVE parse_value(_)
parse_value(txt) ==
    IF Len(txt) = 1 THEN DigitValue(txt[1])
    ELSE 10 * parse_value(SubSeq(txt, 1, Len(txt) - 1)) + DigitValue(txt[Len(txt)])

parse(txt) ==
    IF txt = <<>> \/ \E i \in 1..Len(txt) : \A v \in 1..10 : Digits[v] # txt[i]
      THEN <<>>
      ELSE <<parse_value(txt)>>

\* save's encoding of Some(list): indices joined with commas
encode_selected_files(list) == join([i \in 1..Len(list) |-> to_string(list[i])])

\* row_to_download's decoding: split on commas, keep the pieces that parse
RECURSIVE filter_map_parse(_)
filter_map_parse(pieces) ==
    IF pieces = <<>> THEN <<>>
    ELSE parse(pieces[1]) \o filter_map_parse(Tail(pieces))

decode_selected_files(txt) == filter_map_parse(split(txt))

(***************************************************************************)
(* Rows and statements.                                                    *)
(***************************************************************************)
\* the column values save binds for download, in the row with the given id
Row(download, id) ==
    [id |-> id,
     gid |-> download.gid,
     url |-> download.url,
     magnet_uri |-> download.magnet_uri,
     download_type |-> DownloadType_to_string(download.download_type),
     status |-> DownloadState_to_string(download.status),
     total_size |-> as_i64(download.total_size),
     completed_size |-> as_i64(download.completed_size),
     created_at |-> download.created_at,
     completed_at |-> download.completed_at,
     selected_files |-> IF download.selected_files = <<>> THEN <<>>
                        ELSE <<encode_selected_files(download.selected_files[1])>>]

row_to_download(row) ==
    [id |-> row.id,
     gid |-> row.gid,
     url |-> row.url,
     magnet_uri |-> row.magnet_uri,
     download_type |-> DownloadType_from(row.download_type),
     status |-> DownloadState_from(row.status),
     total_size |-> as_u64(row.total_size),
     completed_size |-> as_u64(row.completed_size),
     created_at |-> row.created_at,
     completed_at |-> row.completed_at,
     connections |-> 0,
     seeders |-> 0,
     selected_files |-> IF row.selected_files = <<>> THEN <<>>
                        ELSE <<decode_selected_files(row.selected_files[1])>>]

\* the rows a new row collides with: the table's primary key and its unique gid
Conflicts(rows, row) == {r \in rows : r.gid = row.gid \/ r.id = row.id}

\* INSERT without OR REPLACE, the colliding insert being given up
InsertOrIgnore(rows, row) ==
    IF Conflicts(rows, row) = {} THEN rows \cup {row} ELSE rows

\* INSERT OR REPLACE: the colliding rows are deleted, then the row is inserted
InsertOrReplace(rows, row) == (rows \ Conflicts(rows, row)) \cup {row}

\* DownloadsDb::save, its effect on the table; returns last_insert_rowid
DownloadsDb_save(download) ==
    /\ nextRowId <= MaxRowId
    /\ store' = InsertOrReplace(store, Row(download, nextRowId))
    /\ nextRowId' = nextRowId + 1
    /\ dbOp' = [op |-> "save", download |-> download, rowid |-> nextRowId,
                 replaced |-> Cardinality(Conflicts(store, Row(download, nextRowId)))]

\* DownloadsDb::save called on its own
save(download) ==
    /\ DownloadsDb_save(download)
    /\ UNCHANGED <<bridgeVars, restoreVars, sideVars>>

\* DownloadsDb::get_by_gid: the first matching row, if any
get_by_gid(gid) ==
    LET found == {r \in store : r.gid = gid} IN
      IF found = {} THEN <<>>
      ELSE <<row_to_download(CHOOSE r \in found : \A q \in found : r.id <= q.id)>>

\* the value a row is ordered by; NULL sorts below every timestamp
SortKey(row, column) ==
    IF column = "created_at" THEN row.created_at
    ELSE IF row.completed_at = <<>> THEN 0 ELSE row.completed_at[1]

\* ORDER BY column DESC: every order of the rows in which the keys do not
\* increase (rows with equal keys come in either order)
RECURSIVE OrderByDesc(_, _)
OrderByDesc(rows, column) ==
    IF rows = {} THEN {<<>>}
    ELSE UNION {{<<m>> \o t : t \in OrderByDesc(rows \ {m}, column)} :
                m \in {r \in rows : \A q \in rows :
                                      SortKey(q, column) <= SortKey(r, column)}}

\* LIMIT n
Limit(rows, n) == IF n < 0 \/ n >= Len(rows) THEN rows ELSE SubSeq(rows, 1, n)

query_map(rows) == [i \in 1..Len(rows) |-> row_to_download(rows[i])]

\* DownloadsDb::get_completed: the possible results
get_completed(limit) ==
    {query_map(Limit(rows, limit)) :
       rows \in OrderByDesc({r \in store : r.status = "complete"}, "completed_at")}

\* WHERE status <> 'complete'
IsIncomplete_lax(row) == row.status # "complete"

\* WHERE status NOT IN ('complete', 'removed')
IsIncomplete(row) == row.status \notin {"complete", "removed"}

\* DownloadsDb::get_incomplete: the possible results
get_incomplete ==
    {query_map(rows) : rows \in OrderByDesc({r \in store : IsIncomplete(r)}, "created_at")}

\* DownloadsDb::update_status
update_status(gid, status) ==
    /\ store' = {IF r.gid = gid
                   THEN [r EXCEPT !.status = DownloadState_to_string(status)]
                   ELSE r : r \in store}
    /\ dbOp' = [op |-> "update_status"]
    /\ UNCHANGED <<nextRowId, bridgeVars, restoreVars, sideVars>>

\* DownloadsDb::mark_completed
mark_completed(gid, completed_at) ==
    /\ store' = {IF r.gid = gid
                   THEN [r EXCEPT !.status = "complete", !.completed_at = <<completed_at>>]
                   ELSE r : r \in store}
    /\ dbOp' = [op |-> "mark_completed"]
    /\ UNCHANGED <<nextRowId, bridgeVars, restoreVars, sideVars>>

\* DownloadsDb::delete, its effect on the table
DownloadsDb_delete(gid) ==
    /\ store' = {r \in store : r.gid # gid}
    /\ dbOp' = [op |-> "delete"]
    /\ UNCHANGED nextRowId

\* DownloadsDb::delete called on its own
delete(gid) ==
    /\ DownloadsDb_delete(gid)
    /\ UNCHANGED <<bridgeVars, restoreVars, sideVars>>

\* DownloadsDb::clear_history
clear_history ==
    /\ store' = {r \in store : r.status # "complete"}
    /\ dbOp' = [op |-> "clear_history"]
    /\ UNCHANGED <<nextRowId, bridgeVars, restoreVars, sideVars>>

\* DownloadsDb::count_completed
count_completed == Cardinality({r \in store : r.status = "complete"})

\* the records the store is exercised with
DbInputs ==
    [id : {0}, gid : DbGids, url : {<<"u1">>}, magnet_uri : {<<>>},
     download_type : {"Http"}, status : DownloadState, total_size : {1},
     completed_size : {0, 1}, created_at : Times, completed_at : Option(Times),
     connections : {1}, seeders : {0}, selected_files : {<<>>}]

NextDb ==
    \/ \E d \in DbInputs : save(d)
    \/ \E g \in DbGids, st \in DownloadState : update_status(g, st)
    \/ \E g \in DbGids, t \in Times : mark_completed(g, t)
    \/ \E g \in DbGids : delete(g)
    \/ clear_history

SpecDb == Init /\ [][NextDb]_vars

\* the selected-files lists a record is saved with
FileLists == {<<>>, <<0>>, <<2, 10>>}

\* the records the round trip is exercised with: every type and state, and
\* every combination of the optional, numeric and list fields
RoundTripBase ==
    [id |-> 0, gid |-> 1, url |-> <<"u1">>, magnet_uri |-> <<>>, download_type |-> "Http",
     status |-> "Active", total_size |-> 1, completed_size |-> 0, created_at |-> 1,
     completed_at |-> <<>>, connections |-> 0, seeders |-> 0, selected_files |-> <<>>]

RoundTripInputs ==
    {[RoundTripBase EXCEPT !.download_type = t, !.status = st] :
        t \in DownloadType, st \in DownloadState}
    \cup
    {[RoundTripBase EXCEPT !.id = i, !.url = u, !.completed_at = c, !.total_size = sz,
                          !.connections = cn, !.seeders = sd, !.selected_files = f] :
        i \in {0, 1}, u \in Option({"u1"}), c \in Option({1}), sz \in Sizes,
        cn \in {0, 1}, sd \in {0, 1}, f \in Option(FileLists)}

NextRoundTrip ==
    \/ \E d \in RoundTripInputs : save(d)
    \/ \E g \in {1} : delete(g)

SpecRoundTrip == Init /\ [][NextRoundTrip]_vars

(***************************************************************************)
(* Start-up of a front-end: restore_incomplete_downloads (GTK window/imp.rs,*)
(* Qt qml.rs), followed in GTK by the first two commands of start_polling.  *)
(* It runs on the UI thread while the bridge loop is already being started. *)
(***************************************************************************)
\* restoration resubmitting FTP records like HTTP ones
RestoreCommand_ftp(download) ==
    CASE download.download_type \in {"Http", "Ftp"} /\ download.url # <<>> ->
           <<[kind |-> "AddDownload", gid |-> 0, arg |-> download.url[1]]>>
      [] download.download_type = "Magnet" /\ download.magnet_uri # <<>> ->
           <<[kind |-> "AddMagnet", gid |-> 0, arg |-> download.magnet_uri[1]]>>
      [] OTHER -> <<>>

\* the command the loop body of restore_incomplete_downloads sends for a record
RestoreCommand(download) ==
    CASE download.download_type = "Http" ->
           IF download.url # <<>>
             THEN <<[kind |-> "AddDownload", gid |-> 0, arg |-> download.url[1]]>>
             ELSE <<>>
      [] download.download_type = "Magnet" ->
           IF download.magnet_uri # <<>>
             THEN <<[kind |-> "AddMagnet", gid |-> 0, arg |-> download.magnet_uri[1]]>>
             ELSE <<>>
      [] download.download_type = "Torrent" -> <<>>
      [] download.download_type = "Ftp" -> <<>>

\* what follows restoration: GoshFetchWindow::new goes on to start_polling,
\* ensure_state has nothing more to send
AfterRestore == IF frontend = "qt" THEN "done" ELSE "poll"

\* DownloadsDb::get_incomplete is read; an empty result ends restoration
restore_begin ==
    /\ restorePc = "init"
    /\ \E incomplete \in get_incomplete :
         /\ restoreList' = incomplete
         /\ restorePc' = IF incomplete = <<>> THEN AfterRestore ELSE "loop"
    /\ UNCHANGED <<submitted, bridgeVars, dbVars, sideVars>>

\* one iteration of `for download in incomplete`
restore_step ==
    /\ restorePc = "loop"
    /\ uiPc = "idle"
    /\ LET download == Head(restoreList)
           cmds == RestoreCommand(download)
       IN /\ restoreList' = Tail(restoreList)
          /\ restorePc' = IF Tail(restoreList) = <<>> THEN AfterRestore ELSE "loop"
          /\ IF cmds = <<>>
               THEN UNCHANGED <<submitted, nextCmd, cmdQ, enqueued, uiPc, uiPending>>
               ELSE /\ submitted' = Append(submitted, [kind |-> cmds[1].kind,
                                                       arg |-> cmds[1].arg,
                                                       gid |-> download.gid])
                    /\ nextCmd' = nextCmd + 1
                    /\ SendBlocking([kind |-> cmds[1].kind, gid |-> cmds[1].gid,
                                     arg |-> cmds[1].arg, n |-> nextCmd])
    /\ UNCHANGED <<uiQ, engQ, lagged, pc, pending, engine, nextEvt, handled,
                   received, emitted, dbVars, sideVars>>

\* GoshFetchWindow::start_polling: the initial RefreshDownloads and RefreshStats
start_polling ==
    /\ restorePc \in {"poll", "poll2"}
    /\ uiPc = "idle"
    /\ restorePc' = IF restorePc = "poll" THEN "poll2" ELSE "done"
    /\ nextCmd' = nextCmd + 1
    /\ SendBlocking([kind |-> IF restorePc = "poll" THEN "RefreshDownloads"
                                                    ELSE "RefreshStats",
                     gid |-> 0, arg |-> <<>>, n |-> nextCmd])
    /\ UNCHANGED <<uiQ, engQ, lagged, pc, pending, engine, nextEvt, handled,
                   received, emitted, restoreList, submitted, dbVars, sideVars>>

\* the statuses of the records an earlier session left behind
PersistedStates == {"Paused", "Error", "Complete", "Removed"}

\* what a persisted record looks like to restoration
RestoreShapes ==
    [download_type : DownloadType, has_url : BOOLEAN, has_magnet : BOOLEAN,
     status : PersistedStates, created_at : Times]

\* the record of the given gid and shape
ShapedDownload(gid, shape) ==
    [id |-> 0, gid |-> gid,
     url |-> IF shape.has_url THEN <<(<<"url", gid>>)>> ELSE <<>>,
     magnet_uri |-> IF shape.has_magnet THEN <<(<<"magnet", gid>>)>> ELSE <<>>,
     download_type |-> shape.download_type, status |-> shape.status,
     total_size |-> 1, completed_size |-> 0, created_at |-> shape.created_at,
     completed_at |-> IF shape.status = "Complete" THEN <<1>> ELSE <<>>,
     connections |-> 0, seeders |-> 0, selected_files |-> <<>>]

\* the store an earlier session left: one row per gid
PersistedStore(G, f) == {Row(ShapedDownload(g, f[g]), g) : g \in G}

InitStartup ==
    /\ InitBridge
    /\ \E G \in SUBSET DbGids : \E f \in [G -> RestoreShapes] : store = PersistedStore(G, f)
    /\ nextRowId = MaxRows + 1
    /\ dbOp = [op |-> "open"]
    /\ restorePc = "init"
    /\ restoreList = <<>>
    /\ submitted = <<>>
    /\ InitSide

NextStartup ==
    \/ restore_begin
    \/ restore_step
    \/ start_polling
    \/ send_blocking_wake
    \/ spawn
    \/ recv_cmd
    \/ ui_send_resume
    \/ ui_recv

SpecStartup == InitStartup /\ [][NextStartup]_vars

(***************************************************************************)
(* The tracker list (db/settings.rs, TrackersDb) behind the connection     *)
(* mutex (db/connection.rs).                                               *)
(***************************************************************************)
\* number of distinct tracker urls
MaxTrackers == 2
\* length of the longest list passed to replace_all
MaxTrackerList == 2

TrackerUrls == 1..MaxTrackers

\* the lists replace_all is called with (a url may occur twice)
TrackerLists == UNION {[1..n -> TrackerUrls] : n \in 0..MaxTrackerList}

\* Database::with_conn / with_conn_mut: self.conn.lock()
with_conn == dbLock = "free"

\* a transaction dropped without rolling back: its changes stay
Rollback_keep(saved) ==
    /\ UNCHANGED <<trackers, last_updated>>

\* Transaction dropped before a successful commit (DropBehavior::Rollback)
Rollback(saved) ==
    /\ trackers' = saved.trackers
    /\ last_updated' = saved.last_updated

\* replace_all returns Err through `?`: tx is dropped, the guard released
replace_all_err ==
    /\ Rollback(journal)
    /\ journal' = None
    /\ txPc' = "none"
    /\ txInput' = <<>>
    /\ dbLock' = "free"
    /\ trackerOp' = [op |-> "replace_all", result |-> "Err"]
    /\ UNCHANGED committed

\* TrackersDb::replace_all: the lock is taken and conn.transaction() called
replace_all_begin(list, ok) ==
    /\ with_conn
    /\ IF ok
         THEN /\ dbLock' = "replace_all"
              /\ journal' = [trackers |-> trackers, last_updated |-> last_updated]
              /\ txPc' = "delete"
              /\ txInput' = list
              /\ trackerOp' = [op |-> "replace_all", result |-> "running"]
         ELSE /\ trackerOp' = [op |-> "replace_all", result |-> "Err"]
              /\ UNCHANGED <<dbLock, journal, txPc, txInput>>
    /\ UNCHANGED <<trackers, last_updated, committed>>
    /\ UNCHANGED <<bridgeVars, dbVars, restoreVars, frontVars, adapterVars, addVars, speedOp, settingsVars, entry, updater>>

\* tx.execute("DELETE FROM trackers")
replace_all_delete(ok) ==
    /\ txPc = "delete"
    /\ IF ok
         THEN /\ trackers' = <<>>
              /\ txPc' = IF txInput = <<>> THEN "update" ELSE "insert"
              /\ UNCHANGED <<last_updated, dbLock, txInput, journal, committed, trackerOp>>
         ELSE replace_all_err
    /\ UNCHANGED <<bridgeVars, dbVars, restoreVars, frontVars, adapterVars, addVars, speedOp, settingsVars, entry, updater>>

\* tx.execute("INSERT INTO trackers (url, enabled) VALUES (?1, 1)")
replace_all_insert(ok) ==
    /\ txPc = "insert"
    /\ IF ok
         THEN /\ trackers' = Append(trackers, Head(txInput))
              /\ txInput' = Tail(txInput)
              /\ txPc' = IF Tail(txInput) = <<>> THEN "update" ELSE "insert"
              /\ UNCHANGED <<last_updated, dbLock, journal, committed, trackerOp>>
         ELSE replace_all_err
    /\ UNCHANGED <<bridgeVars, dbVars, restoreVars, frontVars, adapterVars, addVars, speedOp, settingsVars, entry, updater>>

\* tx.execute("UPDATE tracker_meta SET last_updated = CURRENT_TIMESTAMP ..")
replace_all_update(now, ok) ==
    /\ txPc = "update"
    /\ IF ok
         THEN /\ last_updated' = <<now>>
              /\ txPc' = "commit"
              /\ UNCHANGED <<trackers, dbLock, txInput, journal, committed, trackerOp>>
         ELSE replace_all_err
    /\ UNCHANGED <<bridgeVars, dbVars, restoreVars, frontVars, adapterVars, addVars, speedOp, settingsVars, entry, updater>>

\* tx.commit()
replace_all_commit(ok) ==
    /\ txPc = "commit"
    /\ IF ok
         THEN /\ committed' = [trackers |-> trackers, last_updated |-> last_updated]
              /\ journal' = None
              /\ txPc' = "none"
              /\ dbLock' = "free"
              /\ trackerOp' = [op |-> "replace_all", result |-> "Ok"]
              /\ UNCHANGED <<trackers, last_updated, txInput>>
         ELSE replace_all_err
    /\ UNCHANGED <<bridgeVars, dbVars, restoreVars, frontVars, adapterVars, addVars, speedOp, settingsVars, entry, updater>>

\* TrackersDb::get_enabled (every inserted row has enabled = 1)
get_enabled ==
    /\ with_conn
    /\ trackerOp' = [op |-> "get_enabled", result |-> trackers]
    /\ UNCHANGED <<trackers, last_updated, dbLock, txPc, txInput, journal, committed>>
    /\ UNCHANGED <<bridgeVars, dbVars, restoreVars, frontVars, adapterVars, addVars, speedOp, settingsVars, entry, updater>>

\* TrackersDb::get_last_updated
get_last_updated ==
    /\ with_conn
    /\ trackerOp' = [op |-> "get_last_updated", result |-> last_updated]
    /\ UNCHANGED <<trackers, last_updated, dbLock, txPc, txInput, journal, committed>>
    /\ UNCHANGED <<bridgeVars, dbVars, restoreVars, frontVars, adapterVars, addVars, speedOp, settingsVars, entry, updater>>

NextTrackers ==
    \/ \E list \in TrackerLists, ok \in BOOLEAN : replace_all_begin(list, ok)
    \/ \E ok \in BOOLEAN : replace_all_delete(ok)
    \/ \E ok \in BOOLEAN : replace_all_insert(ok)
    \/ \E now \in Times, ok \in BOOLEAN : replace_all_update(now, ok)
    \/ \E ok \in BOOLEAN : replace_all_commit(ok)
    \/ get_enabled
    \/ get_last_updated

SpecTrackers == Init /\ [][NextTrackers]_vars

(***************************************************************************)
(* The front-ends' handling of UiMessages: GoshFetchWindow::handle_ui_message*)
(* (GTK), App::handle_ui_message (Cosmic), AppController::poll (Qt).        *)
(***************************************************************************)
\* number of UiMessages a front-end handles
MaxUiMsgs == 3
\* completed.truncate(100)
CompletedCap == 100

Frontends == {"gtk", "cosmic", "qt"}

\* a record as the bridge loop passes it on from EngineAdapter::get_status
EngineDownload(gid, status) ==
    [ShapedDownload(gid, [download_type |-> "Http", has_url |-> TRUE,
                          has_magnet |-> FALSE, status |-> status, created_at |-> 1])
       EXCEPT !.connections = 1]

FrontDownloads == {EngineDownload(g, st) : g \in DbGids, st \in {"Active", "Complete"}}

\* the payload of DownloadsList: no two records share a gid
DownloadsLists ==
    {l \in SUBSET FrontDownloads : \A a, b \in l : a.gid = b.gid => a = b}

\* the variants of UiMessage that carry a record, a gid, or neither
RecordKinds == {"DownloadAdded", "DownloadUpdated", "DownloadCompleted"}
NoticeKinds == {"EngineReady", "DownloadFailed", "StatsUpdated", "Error"}

\* Vec::truncate
truncate(list, n) == IF Len(list) <= n THEN list ELSE SubSeq(list, 1, n)

\* the store call of a handler: `if let Err(e) = .. { log::error!(..) }`
LoggedSave(download, ok) ==
    IF ok THEN DownloadsDb_save(download)
    ELSE dbOp' = [op |-> "save_err"] /\ UNCHANGED <<store, nextRowId>>

LoggedDelete(gid, ok) ==
    IF ok THEN DownloadsDb_delete(gid)
    ELSE dbOp' = [op |-> "delete_err"] /\ UNCHANGED <<store, nextRowId>>

\* every handler takes the next message and leaves the rest of the program alone
Handled(kind, gid, db, list) ==
    /\ nextUi <= MaxUiMsgs
    /\ nextUi' = nextUi + 1
    /\ uiOp' = [kind |-> kind, gid |-> gid, db |-> db, list |-> list]
    /\ UNCHANGED <<frontend, bridgeVars, restoreVars, trackerVars, adapterVars, addVars, speedOp, settingsVars, entry, updater>>

\* add_to_completed giving up when the save fails
add_to_completed_strict(download, ok) ==
    /\ LoggedSave(download, ok)
    /\ completed_list' =
         IF ~ok \/ \E i \in 1..Len(completed_list) : completed_list[i] = download.gid
           THEN completed_list
           ELSE truncate(<<download.gid>> \o completed_list, CompletedCap)

\* GoshFetchWindow::add_to_completed
add_to_completed(download, ok) ==
    /\ LoggedSave(download, ok)
    /\ completed_list' =
         IF \E i \in 1..Len(completed_list) : completed_list[i] = download.gid
           THEN completed_list
           ELSE truncate(<<download.gid>> \o completed_list, CompletedCap)

\* GoshFetchWindow::add_download on the list: a record whose gid is listed is
\* not added again
add_download_row(list, download) ==
    IF \E d \in list : d.gid = download.gid THEN list ELSE list \cup {download}

\* GoshFetchWindow::update_download on the list: the record of the gid, if
\* listed, is replaced
update_download(list, download) ==
    IF \E d \in list : d.gid = download.gid
      THEN {d \in list : d.gid # download.gid} \cup {download}
      ELSE list

\* HashMap::insert keyed by gid
insert(map, download) == {d \in map : d.gid # download.gid} \cup {download}

\* Vec::retain(|d| d.gid != gid) and HashMap::remove(&gid)
remove_download(list, gid) == {d \in list : d.gid # gid}

\* GTK: DownloadAdded, DownloadUpdated, DownloadCompleted
gtk_handle_record(kind, download, ok) ==
    /\ frontend = "gtk"
    /\ kind \in RecordKinds
    /\ IF kind = "DownloadCompleted"
         THEN /\ downloads_list' = update_download(downloads_list, download)
              /\ add_to_completed(download, ok)
              /\ Handled(kind, download.gid, IF ok THEN "ok" ELSE "err", {})
         ELSE /\ ok
              /\ downloads_list' = IF kind = "DownloadAdded"
                                     THEN add_download_row(downloads_list, download)
                                     ELSE update_download(downloads_list, download)
              /\ Handled(kind, download.gid, "none", {})
              /\ UNCHANGED <<completed_list, dbVars>>
    /\ UNCHANGED signals

\* GTK: DownloadRemoved (GoshFetchWindow::remove_download)
gtk_handle_removed(gid) ==
    /\ frontend = "gtk"
    /\ downloads_list' = remove_download(downloads_list, gid)
    /\ Handled("DownloadRemoved", gid, "none", {})
    /\ UNCHANGED <<completed_list, signals, dbVars>>

\* set_downloads merging the list into the records already shown
set_downloads_merge(downloads) == downloads_list \cup downloads

\* GoshFetchWindow::set_downloads: the list replaces the records shown
set_downloads(downloads) == downloads

\* GTK: DownloadsList (GoshFetchWindow::set_downloads)
gtk_handle_list(downloads) ==
    /\ frontend = "gtk"
    /\ downloads_list' = set_downloads(downloads)
    /\ Handled("DownloadsList", 0, "none", downloads)
    /\ UNCHANGED <<completed_list, signals, dbVars>>

\* Cosmic: DownloadAdded, DownloadUpdated, DownloadCompleted
cosmic_handle_record(kind, download) ==
    /\ frontend = "cosmic"
    /\ kind \in RecordKinds
    /\ IF kind = "DownloadCompleted"
         THEN /\ downloads_list' = remove_download(downloads_list, download.gid)
              /\ completed_list' = truncate(<<download.gid>> \o completed_list,
                                            CompletedCap)
         ELSE /\ downloads_list' = insert(downloads_list, download)
              /\ UNCHANGED completed_list
    /\ Handled(kind, download.gid, "none", {})
    /\ UNCHANGED <<signals, dbVars>>

\* Cosmic: DownloadRemoved
cosmic_handle_removed(gid) ==
    /\ frontend = "cosmic"
    /\ downloads_list' = remove_download(downloads_list, gid)
    /\ Handled("DownloadRemoved", gid, "none", {})
    /\ UNCHANGED <<completed_list, signals, dbVars>>

\* Cosmic: the map is cleared and the records that are not Complete inserted
clear_insert(downloads) == {d \in downloads : d.status # "Complete"}

\* Cosmic: DownloadsList
cosmic_handle_list(downloads) ==
    /\ frontend = "cosmic"
    /\ downloads_list' = clear_insert(downloads)
    /\ Handled("DownloadsList", 0, "none", downloads)
    /\ UNCHANGED <<completed_list, signals, dbVars>>

\* Qt: DownloadAdded, DownloadUpdated, DownloadCompleted
qt_poll_record(kind, download, ok) ==
    /\ frontend = "qt"
    /\ kind \in RecordKinds
    /\ LoggedSave(download, ok)
    /\ signals' = Append(signals, [name |-> kind, gid |-> download.gid])
    /\ Handled(kind, download.gid, IF ok THEN "ok" ELSE "err", {})
    /\ UNCHANGED <<downloads_list, completed_list>>

\* Qt: DownloadRemoved
qt_poll_removed(gid, ok) ==
    /\ frontend = "qt"
    /\ LoggedDelete(gid, ok)
    /\ signals' = Append(signals, [name |-> "DownloadRemoved", gid |-> gid])
    /\ Handled("DownloadRemoved", gid, IF ok THEN "ok" ELSE "err", {})
    /\ UNCHANGED <<downloads_list, completed_list>>

\* Qt: DownloadsList
qt_poll_list(downloads) ==
    /\ frontend = "qt"
    /\ signals' = Append(signals, [name |-> "DownloadsList", gid |-> 0])
    /\ Handled("DownloadsList", 0, "none", downloads)
    /\ UNCHANGED <<downloads_list, completed_list, dbVars>>

\* every front-end: EngineReady, DownloadFailed, StatsUpdated, Error are logged
\* or shown (Qt raises a signal for each)
handle_notice(kind) ==
    /\ kind \in NoticeKinds
    /\ signals' = IF frontend = "qt"
                    THEN Append(signals, [name |-> kind, gid |-> 0])
                    ELSE signals
    /\ Handled(kind, 0, "none", {})
    /\ UNCHANGED <<downloads_list, completed_list, dbVars>>

InitFrontend ==
    /\ InitBridge /\ InitDb /\ InitRestore /\ InitTrackers /\ InitAdapter /\ InitAdd /\ InitSpeed /\ InitSettings
    /\ InitEntry /\ InitUpdater
    /\ frontend \in Frontends
    /\ downloads_list = {}
    /\ completed_list = <<>>
    /\ signals = <<>>
    /\ uiOp = [kind |-> "none", gid |-> 0, db |-> "none", list |-> {}]
    /\ nextUi = 1

NextFrontend ==
    \/ \E k \in RecordKinds, d \in FrontDownloads, ok \in BOOLEAN :
         gtk_handle_record(k, d, ok)
    \/ \E g \in DbGids : gtk_handle_removed(g)
    \/ \E l \in DownloadsLists : gtk_handle_list(l)
    \/ \E k \in RecordKinds, d \in FrontDownloads : cosmic_handle_record(k, d)
    \/ \E g \in DbGids : cosmic_handle_removed(g)
    \/ \E l \in DownloadsLists : cosmic_handle_list(l)
    \/ \E k \in RecordKinds, d \in FrontDownloads, ok \in BOOLEAN :
         qt_poll_record(k, d, ok)
    \/ \E g \in DbGids, ok \in BOOLEAN : qt_poll_removed(g, ok)
    \/ \E l \in DownloadsLists : qt_poll_list(l)
    \/ \E k \in NoticeKinds : handle_notice(k)

SpecFrontend == InitFrontend /\ [][NextFrontend]_vars

(***************************************************************************)
(* The bulk operations of the adapter (engine_adapter.rs, pause_all and     *)
(* resume_all) over an engine that goes on working between their calls.     *)
(***************************************************************************)
\* number of downloads in the engine
MaxEngineDownloads == 3

EngineGids == 1..MaxEngineDownloads

\* gosh_dl's DownloadState, as convert_state matches it
EngineState ==
    {"Queued", "Connecting", "Downloading", "Seeding", "Paused", "Completed", "Error"}

\* the states of the downloads DownloadEngine::active returns
ActiveStates == {"Connecting", "Downloading", "Seeding"}

\* the states of the downloads DownloadEngine::stopped returns
StoppedStates == {"Paused", "Completed", "Error"}

\* every order in which the engine may list the downloads of a set
RECURSIVE Listings(_)
Listings(gids) ==
    IF gids = {} THEN {<<>>}
    ELSE UNION {{<<[id |-> g, state |-> engineStates[g]]>> \o rest :
                   rest \in Listings(gids \ {g})} : g \in gids}

\* DownloadEngine::active
active == Listings({g \in DOMAIN engineStates : engineStates[g] \in ActiveStates})

\* DownloadEngine::stopped
stopped == Listings({g \in DOMAIN engineStates : engineStates[g] \in StoppedStates})

\* DownloadEngine::pause: a download that is running or queued becomes Paused,
\* any other call fails and changes nothing
engine_pause(id) ==
    IF engineStates[id] \in ActiveStates \cup {"Queued"}
      THEN [engineStates EXCEPT ![id] = "Paused"]
      ELSE engineStates

\* DownloadEngine::resume: a paused or failed download is queued again, any
\* other call fails and changes nothing
engine_resume(id) ==
    IF engineStates[id] \in {"Paused", "Error"}
      THEN [engineStates EXCEPT ![id] = "Queued"]
      ELSE engineStates

\* the engine's own progress on one download
engine_progress(id, to) ==
    /\ id \in DOMAIN engineStates
    /\ \/ engineStates[id] = "Queued" /\ to = "Connecting"
       \/ engineStates[id] = "Connecting" /\ to \in {"Downloading", "Error"}
       \/ engineStates[id] = "Downloading" /\ to \in {"Seeding", "Completed", "Error"}
       \/ engineStates[id] = "Seeding" /\ to = "Completed"
    /\ engineStates' = [engineStates EXCEPT ![id] = to]
    /\ UNCHANGED <<adapterPc, statuses, atSnapshot, calls>>
    /\ UNCHANGED <<bridgeVars, dbVars, restoreVars, trackerVars, frontVars, addVars, speedOp, settingsVars, entry, updater>>

\* EngineAdapter::pause_all: `for status in self.engine.active()`
pause_all_begin ==
    /\ adapterPc = "idle"
    /\ \E list \in active :
         /\ statuses' = list
         /\ adapterPc' = IF list = <<>> THEN "idle" ELSE "pause_all"
    /\ atSnapshot' = engineStates
    /\ calls' = <<>>
    /\ UNCHANGED engineStates
    /\ UNCHANGED <<bridgeVars, dbVars, restoreVars, trackerVars, frontVars, addVars, speedOp, settingsVars, entry, updater>>

\* EngineAdapter::pause_all: `let _ = self.engine.pause(status.id).await`
pause_all_step ==
    /\ adapterPc = "pause_all"
    /\ engineStates' = engine_pause(Head(statuses).id)
    /\ calls' = Append(calls, [op |-> "pause", id |-> Head(statuses).id])
    /\ statuses' = Tail(statuses)
    /\ adapterPc' = IF Tail(statuses) = <<>> THEN "idle" ELSE "pause_all"
    /\ UNCHANGED atSnapshot
    /\ UNCHANGED <<bridgeVars, dbVars, restoreVars, trackerVars, frontVars, addVars, speedOp, settingsVars, entry, updater>>

\* resume_all without its test of status.state
matches_any(state) == TRUE

\* matches!(status.state, EngineState::Paused | EngineState::Error { .. })
matches(state) == state \in {"Paused", "Error"}

\* EngineAdapter::resume_all: `for status in self.engine.stopped()`
resume_all_begin ==
    /\ adapterPc = "idle"
    /\ \E list \in stopped :
         /\ statuses' = list
         /\ adapterPc' = IF list = <<>> THEN "idle" ELSE "resume_all"
    /\ atSnapshot' = engineStates
    /\ calls' = <<>>
    /\ UNCHANGED engineStates
    /\ UNCHANGED <<bridgeVars, dbVars, restoreVars, trackerVars, frontVars, addVars, speedOp, settingsVars, entry, updater>>

\* EngineAdapter::resume_all: one iteration of its loop
resume_all_step ==
    /\ adapterPc = "resume_all"
    /\ IF matches(Head(statuses).state)
         THEN /\ engineStates' = engine_resume(Head(statuses).id)
              /\ calls' = Append(calls, [op |-> "resume", id |-> Head(statuses).id])
         ELSE UNCHANGED <<engineStates, calls>>
    /\ statuses' = Tail(statuses)
    /\ adapterPc' = IF Tail(statuses) = <<>> THEN "idle" ELSE "resume_all"
    /\ UNCHANGED atSnapshot
    /\ UNCHANGED <<bridgeVars, dbVars, restoreVars, trackerVars, frontVars, addVars, speedOp, settingsVars, entry, updater>>

\* an engine holding downloads in any states
InitBulk ==
    /\ InitBridge /\ InitDb /\ InitRestore /\ InitTrackers /\ InitFront /\ InitAdd /\ InitSpeed /\ InitSettings
    /\ InitEntry /\ InitUpdater
    /\ engineStates \in [EngineGids -> EngineState]
    /\ adapterPc = "idle"
    /\ statuses = <<>>
    /\ atSnapshot = engineStates
    /\ calls = <<>>

NextBulk ==
    \/ \E id \in EngineGids, to \in EngineState : engine_progress(id, to)
    \/ pause_all_begin
    \/ pause_all_step
    \/ resume_all_begin
    \/ resume_all_step

SpecBulk == InitBulk /\ [][NextBulk]_vars

(***************************************************************************)
(* EngineAdapter::get_status and convert_status (engine_adapter.rs).  Of   *)
(* the fields convert_status copies, gid stands for all.                   *)
(***************************************************************************)
\* number of calls of get_status
MaxStatusCalls == 1

\* gosh_dl's DownloadKind
DownloadKind == {"Http", "Torrent", "Magnet"}

\* the match on status.state that lets a completed download pass for removed
convert_state_removed(state) ==
    CASE state = "Queued" -> "Waiting"
      [] state \in {"Connecting", "Downloading", "Seeding"} -> "Active"
      [] state = "Paused" -> "Paused"
      [] state = "Completed" -> "Removed"
      [] state = "Error" -> "Error"

\* convert_status: `let state = match &status.state`
convert_state(state) ==
    CASE state = "Queued" -> "Waiting"
      [] state = "Connecting" -> "Active"
      [] state = "Downloading" -> "Active"
      [] state = "Seeding" -> "Active"
      [] state = "Paused" -> "Paused"
      [] state = "Completed" -> "Complete"
      [] state = "Error" -> "Error"

\* convert_status: the Download built from the engine's DownloadStatus
convert_status(status) ==
    [id |-> 0,
     gid |-> status.id,
     download_type |-> CASE status.kind = "Http" -> "Http"
                         [] status.kind = "Torrent" -> "Torrent"
                         [] status.kind = "Magnet" -> "Magnet",
     status |-> convert_state(status.state),
     error_message |-> IF status.state = "Error" THEN <<status.message>> ELSE <<>>]

\* EngineAdapter::get_status: the engine's status of the download, converted;
\* only the state Error carries a message
get_status(id, kind, message) ==
    /\ adapterPc = "idle"
    /\ id \in DOMAIN engineStates
    /\ Len(calls) < MaxStatusCalls
    /\ LET status == [id |-> id, kind |-> kind, state |-> engineStates[id],
                      message |-> IF engineStates[id] = "Error" THEN message ELSE <<>>]
       IN calls' = Append(calls, [op |-> "get_status", id |-> id, status |-> status,
                                  download |-> convert_status(status)])
    /\ UNCHANGED <<engineStates, adapterPc, statuses, atSnapshot>>
    /\ UNCHANGED <<bridgeVars, dbVars, restoreVars, trackerVars, frontVars, addVars, speedOp, settingsVars, entry, updater>>

NextConvert ==
    \/ \E id \in EngineGids, to \in EngineState : engine_progress(id, to)
    \/ \E id \in EngineGids, kind \in DownloadKind, message \in ErrorTexts \cup {<<>>} :
          get_status(id, kind, message)

SpecConvert == InitBulk /\ [][NextConvert]_vars

(***************************************************************************)
(* AddDownload: URL resolution (engine_adapter.rs, resolve_http_url and     *)
(* looks_like_html_download), the engine's add_http and the reply of        *)
(* handle_command.  A text is a sequence of one-character strings.          *)
(***************************************************************************)
\* number of AddDownload requests
MaxAdds == 2

UpperCase == <<"A", "B", "C", "D", "E", "F", "G", "H", "I", "J", "K", "L", "M",
               "N", "O", "P", "Q", "R", "S", "T", "U", "V", "W", "X", "Y", "Z">>
LowerCase == <<"a", "b", "c", "d", "e", "f", "g", "h", "i", "j", "k", "l", "m",
               "n", "o", "p", "q", "r", "s", "t", "u", "v", "w", "x", "y", "z">>

\* the lower-case letter of every upper-case ASCII letter
AsciiLower ==
    [c \in {UpperCase[k] : k \in 1..26} |->
       LowerCase[CHOOSE k \in 1..26 : UpperCase[k] = c]]

\* str::to_ascii_lowercase
to_ascii_lowercase(txt) ==
    [i \in 1..Len(txt) |->
       IF txt[i] \in DOMAIN AsciiLower THEN AsciiLower[txt[i]] ELSE txt[i]]

\* str::starts_with
starts_with(txt, pat) == Len(pat) <= Len(txt) /\ SubSeq(txt, 1, Len(pat)) = pat

\* str::ends_with
ends_with(txt, pat) ==
    Len(pat) <= Len(txt) /\ SubSeq(txt, Len(txt) - Len(pat) + 1, Len(txt)) = pat

\* str::contains
contains(txt, pat) ==
    \E i \in 1..(Len(txt) - Len(pat) + 1) : SubSeq(txt, i, i + Len(pat) - 1) = pat

\* looks_like_html_download
looks_like_html_download(url, content_type, content_disp) ==
    IF content_type = <<>> THEN FALSE
    ELSE IF ~starts_with(to_ascii_lowercase(content_type[1]), <<"t", "e", "x", "t", "/", "h", "t", "m", "l">>) THEN FALSE
    ELSE IF content_disp # <<>>
              /\ contains(to_ascii_lowercase(content_disp[1]), <<"a", "t", "t", "a", "c", "h", "m", "e", "n", "t">>)
      THEN FALSE
    ELSE LET url_lower == to_ascii_lowercase(url)
         IN ~(ends_with(url_lower, <<".", "h", "t", "m", "l">>) \/ ends_with(url_lower, <<".", "h", "t", "m">>))

\* the content types, content dispositions and final URLs of probe responses
ContentTypes ==
    {<<"T", "e", "x", "t", "/", "H", "T", "M", "L", ";", " ", "c", "h", "a", "r", "s", "e", "t", "=", "u", "t", "f", "-", "8">>,
     <<"a", "p", "p", "l", "i", "c", "a", "t", "i", "o", "n", "/", "z", "i", "p">>}

ContentDispositions ==
    {<<"A", "t", "t", "a", "c", "h", "m", "e", "n", "t", ";", " ", "f", "i", "l", "e", "n", "a", "m", "e", "=", "f">>,
     <<"i", "n", "l", "i", "n", "e">>,
     <<"i", "n", "l", "i", "n", "e", ";", " ", "f", "i", "l", "e", "n", "a", "m", "e", "=", "a", "t", "t", "a", "c", "h", "m", "e", "n", "t", ".", "h", "t", "m", "l">>}

FinalUrls ==
    {<<"h", "t", "t", "p", ":", "/", "/", "h", "/", "g", "e", "t">>,
     <<"h", "t", "t", "p", ":", "/", "/", "h", "/", "a", ".", "H", "T", "M">>,
     <<"h", "t", "t", "p", ":", "/", "/", "h", "/", "a", ".", "h", "t", "m", "l", "?", "v", "=", "1">>}

\* what the HEAD probe and the ranged GET probe of resolve_http_url come back
\* with: a response with a success status, a response with another status, or
\* a send error; the headers and final URL are those of the response that is
\* used
Probes ==
    [head : {"success", "status", "failure"}, get : {"success", "status", "error"},
     final_url : FinalUrls, content_type : Option(ContentTypes),
     content_disp : Option(ContentDispositions)]

\* resolve_http_url accepting whatever the probe returns
resolve_http_url_lenient(probe) ==
    IF probe.head # "success" /\ probe.get = "error"
      THEN [ok |-> FALSE, error |-> "Network", field |-> None, get_sent |-> TRUE]
      ELSE [ok |-> TRUE, error |-> None, field |-> None,
            get_sent |-> probe.head # "success"]

\* resolve_http_url: Ok(final_url), or the EngineError it returns
resolve_http_url(probe) ==
    IF probe.head = "success"
      THEN IF looks_like_html_download(probe.final_url, probe.content_type,
                                       probe.content_disp)
             THEN [ok |-> FALSE, error |-> "InvalidInput", field |-> "url",
                   get_sent |-> FALSE]
             ELSE [ok |-> TRUE, error |-> None, field |-> None, get_sent |-> FALSE]
    ELSE IF probe.get = "error"
      THEN [ok |-> FALSE, error |-> "Network", field |-> None, get_sent |-> TRUE]
    ELSE IF looks_like_html_download(probe.final_url, probe.content_type,
                                     probe.content_disp)
      THEN [ok |-> FALSE, error |-> "InvalidInput", field |-> "url", get_sent |-> TRUE]
    ELSE [ok |-> TRUE, error |-> None, field |-> None, get_sent |-> TRUE]

\* the AddDownload arm of handle_command around EngineAdapter::add_download:
\* `resolve_http_url(..).await?`, then `self.engine.add_http(..).await?`, then
\* the reply sent to the UI
add_download(probe, engine_ok, found) ==
    /\ addOp.n < MaxAdds
    \* add_http is reached only after a resolution, get_status only after an add
    /\ ~resolve_http_url(probe).ok => engine_ok
    /\ ~(resolve_http_url(probe).ok /\ engine_ok) => ~found
    /\ LET resolved == resolve_http_url(probe)
           id == Cardinality(transfers) + 1
           res == [ok |-> resolved.ok /\ engine_ok, gid |-> id, status |-> found]
           cmd == [kind |-> "AddDownload", gid |-> 0, arg |-> UserArg("AddDownload"),
                   n |-> addOp.n + 1]
       IN /\ IF resolved.ok
               THEN /\ add_http_calls' = add_http_calls + 1
                    /\ transfers' = IF engine_ok THEN transfers \cup {id} ELSE transfers
               ELSE UNCHANGED <<transfers, add_http_calls>>
          /\ addOp' = [n |-> addOp.n + 1, probe |-> probe, ok |-> res.ok,
                       error |-> IF ~resolved.ok THEN resolved.error
                                 ELSE IF engine_ok THEN None ELSE "Engine",
                       field |-> resolved.field,
                       resolved |-> resolved.ok, get_sent |-> resolved.get_sent,
                       reply |-> Kinds(Reply(cmd, res))]
    /\ UNCHANGED <<bridgeVars, dbVars, restoreVars, trackerVars, frontVars, adapterVars, speedOp, settingsVars, entry, updater>>

NextAdd ==
    \E probe \in Probes, engine_ok \in BOOLEAN, found \in BOOLEAN :
       add_download(probe, engine_ok, found)

SpecAdd == Init /\ [][NextAdd]_vars

(***************************************************************************)
(* parse_speed (engine_adapter.rs).  A u64 is written as its decimal        *)
(* digits, most significant first and without leading zeros, so that the    *)
(* values near 2^64 can be told apart.                                      *)
(***************************************************************************)
\* number of calls of parse_speed
MaxParses == 1

\* u64::MAX and 2^64
U64Max == <<"1", "8", "4", "4", "6", "7", "4", "4", "0", "7", "3", "7", "0", "9", "5", "5", "1", "6", "1", "5">>
TwoPow64 == <<"1", "8", "4", "4", "6", "7", "4", "4", "0", "7", "3", "7", "0", "9", "5", "5", "1", "6", "1", "6">>

IsDigits(txt) == \A i \in 1..Len(txt) : \E v \in 1..10 : Digits[v] = txt[i]

\* the digits of a number without its leading zeros
RECURSIVE StripZeros(_)
StripZeros(d) == IF Len(d) > 1 /\ d[1] = "0" THEN StripZeros(Tail(d)) ELSE d

\* a <= b for two numbers
Leq(a, b) ==
    \/ Len(a) < Len(b)
    \/ /\ Len(a) = Len(b)
       /\ \/ a = b
          \/ \E i \in 1..Len(a) :
                /\ \A j \in 1..(i - 1) : a[j] = b[j]
                /\ DigitValue(a[i]) < DigitValue(b[i])

\* d * m + carry for a small multiplier m, digits kept with leading zeros
RECURSIVE MulCarry(_, _, _)
MulCarry(d, m, carry) ==
    IF d = <<>> THEN to_string(carry)
    ELSE LET v == DigitValue(d[Len(d)]) * m + carry
         IN MulCarry(SubSeq(d, 1, Len(d) - 1), m, v \div 10) \o <<Digits[(v % 10) + 1]>>

\* the exact product d * m
Mul(d, m) == StripZeros(MulCarry(d, m, 0))

\* a - b - borrow for a >= b of the same length, digits kept with leading zeros
RECURSIVE SubBorrow(_, _, _)
SubBorrow(a, b, borrow) ==
    IF a = <<>> THEN <<>>
    ELSE LET v == DigitValue(a[Len(a)]) - DigitValue(b[Len(b)]) - borrow
         IN SubBorrow(SubSeq(a, 1, Len(a) - 1), SubSeq(b, 1, Len(b) - 1),
                      IF v < 0 THEN 1 ELSE 0)
            \o <<Digits[(IF v < 0 THEN v + 10 ELSE v) + 1]>>

\* the exact difference a - b for a >= b
Sub(a, b) ==
    StripZeros(SubBorrow(a, [i \in 1..(Len(a) - Len(b)) |-> "0"] \o b, 0))

\* d mod 2^64, by long division: 2^64 * 10^j is taken off while it fits
RECURSIVE Wrap(_, _)
Wrap(d, j) ==
    IF j < 0 THEN d
    ELSE LET step == TwoPow64 \o [i \in 1..j |-> "0"]
         IN IF Leq(step, d) THEN Wrap(Sub(d, step), j) ELSE Wrap(d, j - 1)

\* u64 `*`: the product, or on overflow what the build makes of it: a panic
\* (overflow checks on) or the wrapped value (overflow checks off)
u64_mul(n, m) ==
    IF Leq(Mul(n, m), U64Max)
      THEN {[kind |-> "Some", value |-> Mul(n, m)]}
      ELSE {[kind |-> "panic", value |-> <<>>],
            [kind |-> "Some", value |-> Wrap(Mul(n, m), 4)]}

\* str::parse::<u64>().ok(): an optional "+", then digits, the value at most u64::MAX
parse_u64(txt) ==
    LET body == IF txt # <<>> /\ txt[1] = "+" THEN Tail(txt) ELSE txt
    IN IF body = <<>> \/ ~IsDigits(body) THEN <<>>
       ELSE IF Leq(StripZeros(body), U64Max) THEN <<StripZeros(body)>>
       ELSE <<>>

\* str::trim
RECURSIVE trim(_)
trim(txt) ==
    IF txt # <<>> /\ txt[1] = " " THEN trim(Tail(txt))
    ELSE IF txt # <<>> /\ txt[Len(txt)] = " " THEN trim(SubSeq(txt, 1, Len(txt) - 1))
    ELSE txt

\* the upper-case letter of every lower-case ASCII letter
AsciiUpper ==
    [c \in {LowerCase[k] : k \in 1..26} |->
       UpperCase[CHOOSE k \in 1..26 : LowerCase[k] = c]]

\* str::to_uppercase
to_uppercase(txt) ==
    [i \in 1..Len(txt) |->
       IF txt[i] \in DOMAIN AsciiUpper THEN AsciiUpper[txt[i]] ELSE txt[i]]

\* `.map(|n| n * 1024 ..)` left to right over the outcomes so far
RECURSIVE map_mul(_, _)
map_mul(outcomes, times) ==
    IF times = 0 THEN outcomes
    ELSE map_mul(UNION {IF o.kind = "Some" THEN u64_mul(o.value, 1024) ELSE {o} :
                        o \in outcomes}, times - 1)

\* parse_speed: the outcomes the build can produce
parse_speed(s) ==
    LET t == to_uppercase(trim(s))
        unit == IF t = <<>> THEN 0
                ELSE IF t[Len(t)] = "K" THEN 1
                ELSE IF t[Len(t)] = "M" THEN 2
                ELSE IF t[Len(t)] = "G" THEN 3
                ELSE 0
        digits == IF unit = 0 THEN t ELSE SubSeq(t, 1, Len(t) - 1)
    IN IF parse_u64(digits) = <<>>
         THEN {[kind |-> "None", value |-> <<>>]}
         ELSE map_mul({[kind |-> "Some", value |-> parse_u64(digits)[1]]}, unit)

\* the numeric parts, unit suffixes and padding of the strings parse_speed is given
SpeedNumbers ==
    {<<>>, <<"0">>, <<"1">>, <<"2">>, <<"0", "0", "7">>, <<"1", "0", "2", "4">>, <<"5", "0", "0">>, <<"+", "3">>, <<"-", "1">>, <<"1", ".", "5">>, <<"a", "b", "c">>,
     <<"1", "7", "1", "7", "9", "8", "6", "9", "1", "8", "4">>,
     <<"1", "8", "0", "1", "4", "3", "9", "8", "5", "0", "9", "4", "8", "1", "9", "8", "4">>,
     <<"1", "8", "4", "4", "6", "7", "4", "4", "0", "7", "3", "7", "0", "9", "5", "5", "1", "6", "1", "5">>,
     <<"1", "8", "4", "4", "6", "7", "4", "4", "0", "7", "3", "7", "0", "9", "5", "5", "1", "6", "1", "6">>}

SpeedUnits == {<<>>, <<"k">>, <<"K">>, <<"m">>, <<"M">>, <<"g">>, <<"G">>, <<"B">>}

SpeedPadding == {<<>>, <<" ">>}

SpeedInputs ==
    {pad \o number \o unit \o pad :
       number \in SpeedNumbers, unit \in SpeedUnits, pad \in SpeedPadding}

\* convert_options calling parse_speed on a limit string
call_parse_speed(s, out) ==
    /\ speedOp.n < MaxParses
    /\ out \in parse_speed(s)
    /\ speedOp' = [n |-> speedOp.n + 1, s |-> s, result |-> out]
    /\ UNCHANGED <<bridgeVars, dbVars, restoreVars, trackerVars, frontVars, adapterVars,
                   addVars, settingsVars, entry, updater>>

NextSpeed ==
    \E s \in SpeedInputs :
       \E out \in [kind : {"Some", "None", "panic"},
                   value : {<<>>} \cup {o.value : o \in parse_speed(s)}] :
          call_parse_speed(s, out)

SpecSpeed == Init /\ [][NextSpeed]_vars

(***************************************************************************)
(* SettingsDb::load (db/settings.rs) and the Settings type (types.rs).  A  *)
(* stored value is the sequence of its characters; an integer field holds  *)
(* the decimal digits of its value and an f64 field its sign, integer      *)
(* digits and fraction digits.                                              *)
(***************************************************************************)
\* number of rows of the settings table
MaxSettingsRows == 2

\* number of calls of SettingsDb::load
MaxLoads == 1

\* u32::MAX
U32Max == <<"4", "2", "9", "4", "9", "6", "7", "2", "9", "5">>

\* str::parse::<u32>().ok(): an optional "+", then digits, the value at most u32::MAX
parse_u32(txt) ==
    LET body == IF txt # <<>> /\ txt[1] = "+" THEN Tail(txt) ELSE txt
    IN IF body = <<>> \/ ~IsDigits(body) THEN <<>>
       ELSE IF Leq(StripZeros(body), U32Max) THEN <<StripZeros(body)>>
       ELSE <<>>

\* the digits of a fraction without its trailing zeros
RECURSIVE StripTrailingZeros(_)
StripTrailingZeros(d) ==
    IF d # <<>> /\ d[Len(d)] = "0" THEN StripTrailingZeros(SubSeq(d, 1, Len(d) - 1)) ELSE d

\* str::parse::<f64>().ok() on plain decimal notation: an optional sign, digits,
\* an optional "." and digits, at least one digit in all; every other text the
\* settings table holds in this model is rejected by Rust too
parse_f64(txt) ==
    LET signed == txt # <<>> /\ txt[1] \in {"+", "-"}
        body == IF signed THEN Tail(txt) ELSE txt
        dots == {i \in 1..Len(body) : body[i] = "."}
        dot == IF dots = {} THEN Len(body) + 1 ELSE CHOOSE i \in dots : \A j \in dots : i <= j
        int == SubSeq(body, 1, dot - 1)
        frac == SubSeq(body, dot + 1, Len(body))
    IN IF IsDigits(int) /\ IsDigits(frac) /\ Len(int) + Len(frac) > 0
         THEN <<[neg |-> signed /\ txt[1] = "-",
                 int |-> IF int = <<>> THEN <<"0">> ELSE StripZeros(int),
                 frac |-> StripTrailingZeros(frac)]>>
         ELSE <<>>

\* Option::unwrap_or
unwrap_or(opt, default) == IF opt = <<>> THEN default ELSE opt[1]

\* Path::join on text paths: an absolute path replaces the base, otherwise a
\* separator is put between the two unless the base is empty or ends with one
Path_join(base, path) ==
    IF path # <<>> /\ path[1] = "/" THEN path
    ELSE IF base = <<>> \/ base[Len(base)] = "/" THEN base \o path
    ELSE base \o <<"/">> \o path

\* the fields of Settings and their types
SettingsFields ==
    [
download_path |-> "String",
     max_concurrent_downloads |-> "u32",
     max_connections_per_server |-> "u32",
     split_count |-> "u32",
     download_speed_limit |-> "u64",
     upload_speed_limit |-> "u64",
     user_agent |-> "String",
     enable_notifications |-> "bool",
     close_to_tray |-> "bool",
     bt_enable_dht |-> "bool",
     bt_enable_pex |-> "bool",
     bt_enable_lpd |-> "bool",
     bt_max_peers |-> "u32",
     bt_seed_ratio |-> "f64",
     auto_update_trackers |-> "bool",
     delete_files_on_remove |-> "bool"]

\* Settings::default(): download_path is the platform's download directory, or
\* Downloads under the home directory (the empty path when there is none)
Settings_default(home, download_dir) ==
    [download_path |->
       unwrap_or(download_dir, Path_join(unwrap_or(home, <<>>), <<"D", "o", "w", "n", "l", "o", "a", "d", "s">>)),
     max_concurrent_downloads |-> <<"5">>,
     max_connections_per_server |-> <<"1", "6">>,
     split_count |-> <<"1", "6">>,
     download_speed_limit |-> <<"0">>,
     upload_speed_limit |-> <<"0">>,
     user_agent |-> <<"g", "o", "s", "h", "-", "d", "l", "/", "0", ".", "1", ".", "0">>,
     enable_notifications |-> TRUE,
     close_to_tray |-> TRUE,
     bt_enable_dht |-> TRUE,
     bt_enable_pex |-> TRUE,
     bt_enable_lpd |-> TRUE,
     bt_max_peers |-> <<"5", "5">>,
     bt_seed_ratio |-> [neg |-> FALSE, int |-> <<"1">>, frac |-> <<>>],
     auto_update_trackers |-> TRUE,
     delete_files_on_remove |-> FALSE]

\* the optional proxy fields of Settings, unset
ProxyDefault == [proxy_user |-> <<>>, proxy_pass |-> <<>>]

\* Some(value).filter(|s| !s.is_empty())
filter_not_empty(value) == IF value = <<>> THEN <<>> ELSE <<value>>

\* the body of load's loop for one row: the arm of the key assigns its field, a
\* key without an arm is skipped
load_row(settings, key, value, home) ==
    CASE key = "download_path" ->
           [settings EXCEPT !.download_path =
             IF starts_with(value, <<"~", "/">>)
               THEN IF home # <<>> THEN Path_join(home[1], SubSeq(value, 3, Len(value)))
                    ELSE value
               ELSE IF value = <<"~">> THEN unwrap_or(home, value)
               ELSE value]
      [] key = "max_concurrent_downloads" ->
           [settings EXCEPT !.max_concurrent_downloads =
             unwrap_or(parse_u32(value), <<"5">>)]
      [] key = "max_connections_per_server" ->
           [settings EXCEPT !.max_connections_per_server =
             unwrap_or(parse_u32(value), <<"1", "6">>)]
      [] key = "split_count" ->
           [settings EXCEPT !.split_count =
             unwrap_or(parse_u32(value), <<"1", "6">>)]
      [] key = "download_speed_limit" ->
           [settings EXCEPT !.download_speed_limit =
             unwrap_or(parse_u64(value), <<"0">>)]
      [] key = "upload_speed_limit" ->
           [settings EXCEPT !.upload_speed_limit =
             unwrap_or(parse_u64(value), <<"0">>)]
      [] key = "user_agent" ->
           [settings EXCEPT !.user_agent =
             value]
      [] key = "enable_notifications" ->
           [settings EXCEPT !.enable_notifications =
             value = <<"t", "r", "u", "e">>]
      [] key = "close_to_tray" ->
           [settings EXCEPT !.close_to_tray =
             value = <<"t", "r", "u", "e">>]
      [] key = "bt_enable_dht" ->
           [settings EXCEPT !.bt_enable_dht =
             value = <<"t", "r", "u", "e">>]
      [] key = "bt_enable_pex" ->
           [settings EXCEPT !.bt_enable_pex =
             value = <<"t", "r", "u", "e">>]
      [] key = "bt_enable_lpd" ->
           [settings EXCEPT !.bt_enable_lpd =
             value = <<"t", "r", "u", "e">>]
      [] key = "bt_max_peers" ->
           [settings EXCEPT !.bt_max_peers =
             unwrap_or(parse_u32(value), <<"5", "5">>)]
      [] key = "bt_seed_ratio" ->
           [settings EXCEPT !.bt_seed_ratio =
             unwrap_or(parse_f64(value), [neg |-> FALSE, int |-> <<"1">>, frac |-> <<>>])]
      [] key = "auto_update_trackers" ->
           [settings EXCEPT !.auto_update_trackers =
             value = <<"t", "r", "u", "e">>]
      [] key = "delete_files_on_remove" ->
           [settings EXCEPT !.delete_files_on_remove =
             value = <<"t", "r", "u", "e">>]
      [] key = "proxy_user" ->
           [settings EXCEPT !.proxy_user = filter_not_empty(value)]
      [] key = "proxy_pass" ->
           [settings EXCEPT !.proxy_pass = filter_not_empty(value)]
      [] OTHER -> settings

\* load's loop over the rows of `SELECT key, value FROM settings`; the key is
\* unique (set writes with INSERT OR REPLACE) and an arm assigns only the field
\* of its key, so the order of the rows does not change the result
RECURSIVE load_rows(_, _, _, _)
load_rows(settings, table, keys, home) ==
    IF keys = {} THEN settings
    ELSE LET key == CHOOSE k \in keys : TRUE
         IN load_rows(load_row(settings, key, table[key], home), table, keys \ {key}, home)

\* SettingsDb::load: the Settings value built from the rows of the table
load(home, download_dir) ==
    /\ with_conn
    /\ settingsOp.n < MaxLoads
    /\ settingsOp' =
         [n |-> settingsOp.n + 1, home |-> home, download_dir |-> download_dir,
          result |-> load_rows(Settings_default(home, download_dir) @@ ProxyDefault,
                               settings_table, DOMAIN settings_table, home),
          saves |-> settingsOp.saves, saved |-> settingsOp.saved]
    /\ UNCHANGED <<settings_table, controller>>
    /\ UNCHANGED <<bridgeVars, dbVars, restoreVars, trackerVars, frontVars, adapterVars,
                   addVars, speedOp, entry, updater>>

\* the keys a settings table holds: those of the fields and one the code does
\* not know
SettingKeys == DOMAIN SettingsFields \cup {"theme"}

\* the values a row holds: text written by set
SettingValues ==
    {<<>>,
     <<"t", "r", "u", "e">>,
     <<"f", "a", "l", "s", "e">>,
     <<"T", "R", "U", "E">>,
     <<"7">>,
     <<"x">>,
     <<"~">>,
     <<"~", "/", "d">>,
     <<"4", "2", "9", "4", "9", "6", "7", "2", "9", "6">>}

\* the settings tables of up to MaxSettingsRows rows
SettingsTables ==
    UNION {[keys -> SettingValues] :
             keys \in {k \in SUBSET SettingKeys : Cardinality(k) <= MaxSettingsRows}}

\* the home directory and the download directory the platform reports, if any
HomeDirs == {<<>>, <<<<"/", "h">>>>}
DownloadDirs == {<<>>, <<<<"/", "d">>>>}

\* a database opened on a settings table written by earlier runs
InitSettingsDb ==
    /\ InitBridge /\ InitDb /\ InitRestore /\ InitTrackers /\ InitFront /\ InitAdapter
    /\ InitAdd /\ InitSpeed /\ InitLoad /\ InitEntry /\ InitUpdater
    /\ settings_table \in SettingsTables

NextSettings ==
    \E home \in HomeDirs, download_dir \in DownloadDirs : load(home, download_dir)

SpecSettings == InitSettingsDb /\ [][NextSettings]_vars

(***************************************************************************)
(* The Qt controller's set_setting (gosh-fetch-qt/src/qml.rs) with         *)
(* SettingsDb::set, and the proxy fields that db/settings.rs and qml.rs    *)
(* read and write.                                                         *)
(***************************************************************************)
\* number of calls of set_setting
MaxSets == 3

\* SettingsDb::set: INSERT OR REPLACE of the row of the key
SettingsDb_set(table, key, value) ==
    [k \in DOMAIN table \cup {key} |-> IF k = key THEN value ELSE table[k]]

\* the match of set_setting on the key: download_path takes the value as it
\* is, and the other arms are those of load
set_setting_field(settings, key, value) ==
    CASE key = "download_path" -> [settings EXCEPT !.download_path = value]
      [] OTHER -> load_row(settings, key, value, <<>>)

\* settings_to_engine_config: the engine configuration of a Settings value
settings_to_engine_config(settings) == <<"config", settings>>

\* a store write whose failure goes unnoticed
set_failed_ignored(ok) == FALSE

\* `if let Err(e) = SettingsDb::set(..)`
set_failed(ok) == ~ok

\* AppController::set_setting: the store write, on its failure the return, else
\* the in-memory assignment and the UpdateConfig command
set_setting(key, value, ok) ==
    /\ uiPc = "idle"
    /\ controller.n < MaxSets
    /\ settings_table' = IF ok THEN SettingsDb_set(settings_table, key, value)
                          ELSE settings_table
    /\ IF set_failed(ok)
         THEN /\ controller' = [controller EXCEPT !.n = @ + 1, !.key = key,
                                                  !.value = value, !.ok = ok]
              /\ UNCHANGED <<cmdQ, enqueued, uiPc, uiPending, nextCmd>>
         ELSE LET updated == set_setting_field(controller.settings, key, value)
              IN /\ controller' = [settings |-> updated, n |-> controller.n + 1,
                                    key |-> key, value |-> value, ok |-> ok]
                 /\ nextCmd' = nextCmd + 1
                 /\ SendBlocking([kind |-> "UpdateConfig", gid |-> 0,
                                   arg |-> settings_to_engine_config(updated),
                                   n |-> nextCmd])
    /\ UNCHANGED <<uiQ, engQ, lagged, pc, pending, engine, nextEvt, handled,
                   received, emitted, settingsOp>>
    /\ UNCHANGED <<dbVars, restoreVars, trackerVars, frontVars, adapterVars, addVars,
                   speedOp, entry, updater>>

\* the keys and values passed to set_setting: a text, an integer, a boolean
\* and an optional field, and a key without an arm
SetKeys == {"download_path", "max_concurrent_downloads", "enable_notifications",
            "proxy_user", "theme"}
SetValues == {<<>>, <<"7">>, <<"t", "r", "u", "e">>}

\* a controller whose state ensure_state has created from an empty settings
\* table, the bridge loop's thread not yet scheduled
InitController ==
    /\ InitBridge /\ InitDb /\ InitRestore /\ InitTrackers /\ InitFront /\ InitAdapter
    /\ InitAdd /\ InitSpeed /\ InitEntry /\ InitUpdater
    /\ settings_table = <<>>
    /\ settingsOp = [n |-> 0, home |-> <<>>, download_dir |-> <<>>, result |-> None,
                     saves |-> 0, saved |-> <<>>]
    /\ controller = [settings |-> Settings_default(<<>>, <<<<"/", "d">>>>) @@ ProxyDefault,
                     n |-> 0, key |-> None, value |-> <<>>, ok |-> TRUE]

NextController ==
    \/ \E key \in SetKeys, value \in SetValues, ok \in BOOLEAN : set_setting(key, value, ok)
    \/ send_blocking_wake
    \/ spawn
    \/ recv_cmd
    \/ ui_send_resume
    \/ ui_recv

SpecController == InitController /\ [][NextController]_vars

(***************************************************************************)
(* SettingsDb::save (db/settings.rs): one set per field, in the order of   *)
(* the code, ended by the first set that fails.                            *)
(***************************************************************************)
\* number of calls of SettingsDb::save
MaxSaves == 1

\* `if b { "true" } else { "false" }`
bool_text(b) == IF b THEN <<"t", "r", "u", "e">> ELSE <<"f", "a", "l", "s", "e">>

\* f64::to_string: the sign, the integer digits and, unless there is none,
\* a "." and the fraction digits
f64_to_string(x) ==
    (IF x.neg THEN <<"-">> ELSE <<>>) \o x.int
      \o (IF x.frac = <<>> THEN <<>> ELSE <<".">> \o x.frac)

\* the rows save writes for a Settings value, in order: an integer is written
\* as its decimal digits, and a proxy field only when it is Some
save_rows(settings) ==
    <<<<"download_path", settings.download_path>>,
      <<"max_concurrent_downloads", settings.max_concurrent_downloads>>,
      <<"max_connections_per_server", settings.max_connections_per_server>>,
      <<"split_count", settings.split_count>>,
      <<"download_speed_limit", settings.download_speed_limit>>,
      <<"upload_speed_limit", settings.upload_speed_limit>>,
      <<"user_agent", settings.user_agent>>,
      <<"enable_notifications", bool_text(settings.enable_notifications)>>,
      <<"close_to_tray", bool_text(settings.close_to_tray)>>,
      <<"bt_enable_dht", bool_text(settings.bt_enable_dht)>>,
      <<"bt_enable_pex", bool_text(settings.bt_enable_pex)>>,
      <<"bt_enable_lpd", bool_text(settings.bt_enable_lpd)>>,
      <<"bt_max_peers", settings.bt_max_peers>>,
      <<"bt_seed_ratio", f64_to_string(settings.bt_seed_ratio)>>,
      <<"auto_update_trackers", bool_text(settings.auto_update_trackers)>>,
      <<"delete_files_on_remove", bool_text(settings.delete_files_on_remove)>>>>
    \o (IF settings.proxy_user # <<>>
          THEN <<<<"proxy_user", settings.proxy_user[1]>>>> ELSE <<>>)
    \o (IF settings.proxy_pass # <<>>
          THEN <<<<"proxy_pass", settings.proxy_pass[1]>>>> ELSE <<>>)

\* the table after the first k sets of rows
RECURSIVE set_all(_, _, _)
set_all(table, rows, k) ==
    IF k = 0 THEN table
    ELSE LET before == set_all(table, rows, k - 1)
         IN SettingsDb_set(before, rows[k][1], rows[k][2])

\* SettingsDb::save: `written` sets succeed; save returns Ok when all of them do
SettingsDb_save(settings, written) ==
    /\ with_conn
    /\ settingsOp.n = 0 /\ settingsOp.saves < MaxSaves
    /\ settings_table' = set_all(settings_table, save_rows(settings), written)
    /\ settingsOp' = [settingsOp EXCEPT
                        !.saves = @ + 1,
                        !.saved = IF written = Len(save_rows(settings))
                                    THEN <<settings>> ELSE <<>>]
    /\ UNCHANGED controller
    /\ UNCHANGED <<bridgeVars, dbVars, restoreVars, trackerVars, frontVars, adapterVars,
                   addVars, speedOp, entry, updater>>

\* the Settings values saved: the default with another download path, number,
\* boolean, ratio, proxy user or proxy password
SavedSettings ==
    {[Settings_default(<<>>, <<<<"/", "d">>>>) @@ ProxyDefault EXCEPT
        !.download_path = v.download_path,
        !.max_concurrent_downloads = v.max_concurrent_downloads,
        !.enable_notifications = v.enable_notifications,
        !.bt_seed_ratio = v.bt_seed_ratio,
        !.proxy_user = v.proxy_user,
        !.proxy_pass = v.proxy_pass] :
       v \in [download_path : {<<"/", "d">>, <<"~", "/", "d">>, <<"~">>},
              max_concurrent_downloads : {<<"5">>, <<"7">>},
              enable_notifications : BOOLEAN,
              bt_seed_ratio : {[neg |-> FALSE, int |-> <<"1">>, frac |-> <<>>],
                               [neg |-> FALSE, int |-> <<"0">>, frac |-> <<"5">>]},
              proxy_user : {<<>>, <<<<"u">>>>, <<<<>>>>},
              proxy_pass : {<<>>, <<<<"p">>>>}]}

\* the contents of the settings table before the save
PriorTables ==
    {<<>>,
     [k \in {"proxy_user"} |-> <<"o", "l", "d">>],
     [k \in {"theme"} |-> <<"x">>],
     [k \in {"download_path", "max_concurrent_downloads"} |-> <<"x">>]}

InitSaveLoad ==
    /\ InitBridge /\ InitDb /\ InitRestore /\ InitTrackers /\ InitFront /\ InitAdapter
    /\ InitAdd /\ InitSpeed /\ InitLoad /\ InitEntry /\ InitUpdater
    /\ settings_table \in PriorTables

NextSaveLoad ==
    \/ \E settings \in SavedSettings :
          \E written \in 0..Len(save_rows(settings)) : SettingsDb_save(settings, written)
    \/ \E home \in HomeDirs, download_dir \in DownloadDirs : load(home, download_dir)

SpecSaveLoad == InitSaveLoad /\ [][NextSaveLoad]_vars

(***************************************************************************)
(* TrackerUpdater (utils.rs).  The clock counts half hours, so that an age *)
(* between two whole hours occurs.                                         *)
(***************************************************************************)
\* the half hours the clock runs for
MaxClock == 50

\* ticks of the clock per hour
TicksPerHour == 2

\* the age in hours from which the list is stale
StaleHours == 24

\* number of lines of a fetched list
MaxLines == 2

\* Duration::num_hours rounding to the nearest hour
num_hours_nearest(duration) == (duration + TicksPerHour \div 2) \div TicksPerHour

\* Duration::num_hours: the whole hours of a duration
num_hours(duration) == duration \div TicksPerHour

\* TrackerUpdater::needs_update at the time now
needs_update_at(last_update, now) ==
    IF last_update = <<>> THEN TRUE
    ELSE num_hours(now - last_update[1]) >= StaleHours

\* the wall clock advances; what was last returned is then out of date
tick ==
    /\ updater.now < MaxClock
    /\ updater' = [updater EXCEPT !.now = @ + 1, !.op = "tick"]
    /\ UNCHANGED <<bridgeVars, dbVars, restoreVars, trackerVars, frontVars, adapterVars,
                   addVars, speedOp, settingsVars, entry>>

\* TrackerUpdater::needs_update
needs_update ==
    /\ updater' = [updater EXCEPT
                     !.op = "needs_update",
                     !.result = needs_update_at(updater.last_update, updater.now)]
    /\ UNCHANGED <<bridgeVars, dbVars, restoreVars, trackerVars, frontVars, adapterVars,
                   addVars, speedOp, settingsVars, entry>>

\* the lines of a response's text, trimmed; an empty one stands for a blank line
FetchedTexts == UNION {[1..n -> TrackerUrls \cup {0}] : n \in 0..MaxLines}

\* `.filter(|s| !s.is_empty())`
filter_not_blank(lines) == SelectSeq(lines, LAMBDA l : l # 0)

\* TrackerUpdater::fetch_trackers: the request fails, the status is not a
\* success, the body cannot be read, or the list and the time are replaced
fetch_trackers(outcome, text) ==
    /\ updater' =
         IF outcome = "ok"
           THEN [updater EXCEPT !.op = "fetch_ok",
                                !.trackers = filter_not_blank(text),
                                !.last_update = <<updater.now>>,
                                !.done = <<updater.now>>,
                                !.failed = FALSE]
           ELSE [updater EXCEPT !.op = "fetch_err", !.failed = TRUE]
    /\ UNCHANGED <<bridgeVars, dbVars, restoreVars, trackerVars, frontVars, adapterVars,
                   addVars, speedOp, settingsVars, entry>>

\* TrackerUpdater::set_trackers
set_trackers(list) ==
    /\ updater' = [updater EXCEPT !.op = "set_trackers",
                                  !.trackers = list,
                                  !.last_update = <<updater.now>>,
                                  !.done = <<updater.now>>,
                                  !.failed = FALSE]
    /\ UNCHANGED <<bridgeVars, dbVars, restoreVars, trackerVars, frontVars, adapterVars,
                   addVars, speedOp, settingsVars, entry>>

FetchOutcomes == {"send_err", "status", "text_err", "ok"}

NextUpdater ==
    \/ tick
    \/ needs_update
    \/ \E outcome \in FetchOutcomes, text \in FetchedTexts : fetch_trackers(outcome, text)
    \/ \E list \in TrackerLists : set_trackers(list)

SpecUpdater == Init /\ [][NextUpdater]_vars

(***************************************************************************)
(* The entry points of the front-ends: GoshFetchApplication::activate       *)
(* (gosh-fetch-gtk/src/application.rs) and ensure_state                     *)
(* (gosh-fetch-qt/src/qml.rs), each run by the UI thread from its first     *)
(* line to its return, and the Qt controller's poll.                        *)
(***************************************************************************)
\* number of invocations of the entry point
MaxActivations == 3

\* number of unfinished records an earlier session left in the store
MaxSessionRows == 3

\* `self.window.get()` finding no window although one was created
window_get_none == FALSE

\* `if let Some(window) = self.window.get()`
window_get == entry.window

\* activate up to the construction of the window: an existing window is
\* presented; a database that does not open quits; otherwise the service
\* thread is spawned and GoshFetchWindow::new runs restoration and polling
activate(db_ok) ==
    /\ frontend = "gtk"
    /\ entry.pc = "idle"
    /\ restorePc = "done"
    /\ entry.calls < MaxActivations
    /\ IF window_get \/ ~db_ok
         THEN /\ entry' = [entry EXCEPT !.calls = @ + 1]
              /\ UNCHANGED restorePc
         ELSE /\ entry' = [entry EXCEPT !.calls = @ + 1, !.threads = @ + 1,
                                        !.pc = "activate"]
              /\ restorePc' = "init"
    /\ UNCHANGED <<restoreList, submitted, bridgeVars, dbVars, trackerVars, frontVars,
                   adapterVars, addVars, speedOp, settingsVars, updater>>

\* activate after GoshFetchWindow::new has returned: the window is stored and
\* the receiver future spawned
activate_present ==
    /\ entry.pc = "activate"
    /\ restorePc = "done"
    /\ uiPc = "idle"
    /\ entry' = [entry EXCEPT !.window = TRUE, !.pc = "idle"]
    /\ UNCHANGED <<restoreVars, bridgeVars, dbVars, trackerVars, frontVars,
                   adapterVars, addVars, speedOp, settingsVars, updater>>

\* the thread activate spawned: DownloadService::new_async, then spawn; when
\* the service cannot be created the thread sends an Error and ends, which
\* drops the command receiver
service_thread(new_ok) ==
    /\ entry.threads > 0
    /\ IF new_ok
         THEN /\ entry' = [entry EXCEPT !.threads = @ - 1, !.loops = @ + 1]
              /\ UNCHANGED <<pc, cmdQ, uiQ>>
         ELSE /\ entry' = [entry EXCEPT !.threads = @ - 1]
              /\ pc' = "done"
              /\ cmdQ' = <<>>
              /\ uiQ' = send(uiQ, UiMessage("Error", 0, "app", 0))
    /\ UNCHANGED <<engQ, lagged, pending, uiPc, uiPending, engine, nextCmd, nextEvt,
                   enqueued, handled, received, emitted>>
    /\ UNCHANGED <<restoreVars, dbVars, trackerVars, frontVars, adapterVars, addVars,
                   speedOp, settingsVars, updater>>

\* `APP_STATE.get().is_some()`
app_state_is_some == entry.app_state

\* ensure_state up to restoration: a set state returns at once; a database
\* that does not open or a service that cannot be created returns the error;
\* otherwise the service is spawned and restoration begins
ensure_state(db_ok, new_ok) ==
    /\ frontend = "qt"
    /\ entry.pc = "idle"
    /\ restorePc = "done"
    /\ entry.calls < MaxActivations
    /\ IF app_state_is_some \/ ~db_ok \/ ~new_ok
         THEN /\ entry' = [entry EXCEPT !.calls = @ + 1]
              /\ UNCHANGED restorePc
         ELSE /\ entry' = [entry EXCEPT !.calls = @ + 1, !.loops = @ + 1,
                                        !.pc = "ensure_state"]
              /\ restorePc' = "init"
    /\ UNCHANGED <<restoreList, submitted, bridgeVars, dbVars, trackerVars, frontVars,
                   adapterVars, addVars, speedOp, settingsVars, updater>>

\* ensure_state after restoration: `APP_STATE.set(..)`
ensure_state_set ==
    /\ entry.pc = "ensure_state"
    /\ restorePc = "done"
    /\ uiPc = "idle"
    /\ entry' = [entry EXCEPT !.app_state = TRUE, !.pc = "idle"]
    /\ UNCHANGED <<restoreVars, bridgeVars, dbVars, trackerVars, frontVars,
                   adapterVars, addVars, speedOp, settingsVars, updater>>

\* the states convert_state gives the record of a download the engine reports
ReportedStates == {"Waiting", "Active", "Paused", "Complete", "Error"}

\* the GTK receiver future takes a message once activate has spawned it
gtk_recv ==
    /\ frontend = "gtk"
    /\ entry.window
    /\ ui_recv

\* AppController::poll for one message of the event channel: the record of
\* DownloadAdded, DownloadUpdated and DownloadCompleted is saved, the row of
\* DownloadRemoved deleted, and a failure of the store only logged
poll(status, ok) ==
    /\ frontend = "qt"
    /\ entry.app_state
    /\ entry.pc = "idle"
    /\ uiPc = "idle"
    /\ uiQ # <<>>
    /\ LET msg == recv(uiQ).item IN
         /\ uiQ' = recv(uiQ).rest
         /\ (msg.kind = "DownloadCompleted") => (status = "Complete")
         /\ IF msg.kind \in RecordKinds
              THEN LoggedSave(EngineDownload(msg.gid, status), ok)
              ELSE IF msg.kind = "DownloadRemoved"
                THEN LoggedDelete(msg.gid, ok)
                ELSE ok /\ status = "Active" /\ UNCHANGED dbVars
         /\ signals' = Append(signals, [name |-> msg.kind, gid |-> msg.gid])
    /\ UNCHANGED <<cmdQ, engQ, lagged, pc, pending, uiPc, uiPending, engine,
                   nextCmd, nextEvt, enqueued, handled, received, emitted>>
    /\ UNCHANGED <<frontend, downloads_list, completed_list, uiOp, nextUi>>
    /\ UNCHANGED <<restoreVars, trackerVars, adapterVars, addVars, speedOp,
                   settingsVars, entry, updater>>

\* the records an earlier session left unfinished: restorable Http downloads
UnfinishedShape ==
    [download_type |-> "Http", has_url |-> TRUE, has_magnet |-> FALSE,
     status |-> "Paused", created_at |-> 1]

\* a GTK or Qt application before its entry point has run, on a store an
\* earlier session left
InitApplication ==
    /\ InitBridge
    /\ \E G \in SUBSET (1..MaxSessionRows) :
         /\ store = PersistedStore(G, [g \in G |-> UnfinishedShape])
         /\ nextRowId = Cardinality({g \in 1..MaxSessionRows : \E h \in G : g <= h}) + 1
    /\ dbOp = [op |-> "open"]
    /\ InitRestore
    /\ InitTrackers /\ InitAdapter /\ InitAdd /\ InitSpeed /\ InitSettings /\ InitUpdater
    /\ frontend \in {"gtk", "qt"}
    /\ downloads_list = {}
    /\ completed_list = <<>>
    /\ signals = <<>>
    /\ uiOp = [kind |-> "none", gid |-> 0, db |-> "none", list |-> {}]
    /\ nextUi = 1
    /\ entry = [pc |-> "idle", window |-> FALSE, app_state |-> FALSE, threads |-> 0,
                loops |-> 0, calls |-> 0]

NextApplication ==
    \/ \E db_ok \in BOOLEAN : activate(db_ok)
    \/ activate_present
    \/ \E new_ok \in BOOLEAN : service_thread(new_ok)
    \/ \E db_ok, new_ok \in BOOLEAN : ensure_state(db_ok, new_ok)
    \/ ensure_state_set
    \/ restore_begin
    \/ restore_step
    \/ start_polling
    \/ send_blocking_wake
    \/ spawn
    \/ recv_cmd
    \/ ui_send_resume
    \/ gtk_recv
    \/ \E status \in ReportedStates, ok \in BOOLEAN : poll(status, ok)

SpecApplication == InitApplication /\ [][NextApplication]_vars

(***************************************************************************)
(* Properties of the bridge loop.                                          *)
(***************************************************************************)
\* the command-derived (event-derived) messages buffered on the event channel
\* carry increasing numbers from front to back
StreamOrdered(src) ==
    \A i, j \in 1..Len(uiQ) :
        i < j /\ uiQ[i].src = src /\ uiQ[j].src = src => uiQ[i].n < uiQ[j].n

\* C1: commands are dequeued in submission order, one at a time, each only once
\* the loop is back in its select (the previous handler has sent its message);
\* the message a handler sends is accepted by the event channel after those of
\* all earlier commands, so command-derived messages appear on the event stream
\* in submission order.
CommandOrder ==
    /\ [](StreamOrdered("cmd"))
    /\ [](pc = "send" /\ pending.src = "cmd"
            => pending.n = handled.n /\ emitted.cmd < pending.n)
    /\ [][/\ handled'.n # handled.n => handled'.n = handled.n + 1 /\ pc = "select"
          /\ emitted'.cmd # emitted.cmd
               => emitted'.cmd > emitted.cmd /\ emitted'.cmd = handled'.n]_vars

\* two command-derived messages, of the first and of the second command, are
\* buffered on the event channel
CommandOrderWitness ==
    /\ Len(uiQ) = 2
    /\ uiQ[1].src = "cmd" /\ uiQ[1].n = 1
    /\ uiQ[2].src = "cmd" /\ uiQ[2].n = 2

\* C2: the loop is never suspended in a send on the event channel: a message
\* that finds the channel full is dropped.
NeverSuspendedOnEventChannel == pc # "send"

\* C3: a UI call site that submits a command never blocks the interface thread.
SubmitNeverBlocks == uiPc # "blocked"

\* C4: a command whose adapter call fails makes the handler send exactly one
\* Error message, which the event channel accepts unless the UI is gone; the
\* loop stays alive after it, and it ends only by dequeuing Shutdown or by a
\* receive on the closed, empty command channel, never by a failed receive on
\* the engine subscription.
HandlerErrorsReported ==
    /\ [](handled.err => handled.reply = <<"Error">>)
    /\ [](pc = "send" /\ pending.src = "cmd" /\ handled.err => pending.kind = "Error")
    /\ [](pc = "select" /\ handled.err /\ uiPc # "quit" => emitted.cmd = handled.n)
    /\ [][/\ handled' # handled /\ handled'.err => pc' \in {"select", "send"}
          /\ pc # "done" /\ pc' = "done"
               => \/ handled'.kind = "Shutdown" /\ handled'.n # handled.n
                  \/ cmdQ = <<>> /\ uiPc = "quit"
          /\ lagged /\ ~lagged' => pc' = pc]_vars

\* the second command failed, its Error message was accepted, and the loop is
\* back in its select
HandlerErrorsWitness ==
    /\ handled.err
    /\ handled.n = 2
    /\ emitted.cmd = 2
    /\ pc = "select"

\* C5: dequeuing Shutdown ends the loop at once; the commands dequeued before
\* it are exactly those submitted before it (they are dequeued in order, none
\* skipped), and once the loop has ended no command is handled, the engine is
\* not touched and the event channel accepts no further message.
ShutdownEndsLoop ==
    /\ [](handled.kind = "Shutdown" => pc = "done")
    /\ [][/\ handled'.n # handled.n => handled'.n = handled.n + 1
          /\ pc = "done" => /\ pc' = "done"
                            /\ handled' = handled
                            /\ engine' = engine
                            /\ emitted' = emitted
                            /\ Len(uiQ') <= Len(uiQ)]_vars

\* Shutdown was the second of three accepted commands: the first was handled,
\* the third was never dequeued
ShutdownWitness ==
    /\ pc = "done"
    /\ handled.kind = "Shutdown"
    /\ handled.n = 2
    /\ enqueued = 3

\* C6: engine events are received in emission order, and the message derived
\* from an event is accepted by the event channel after those of all earlier
\* events, so event-derived messages appear on the event stream in emission
\* order.
EventOrder ==
    /\ [](StreamOrdered("evt"))
    /\ [](pc = "send" /\ pending.src = "evt"
            => pending.n = received.n /\ emitted.evt < pending.n)
    /\ [][/\ received'.n # received.n => received'.n > received.n /\ pc = "select"
          /\ emitted'.evt # emitted.evt
               => emitted'.evt > emitted.evt /\ emitted'.evt = received'.n]_vars

\* two event-derived messages, of the first and of the second event, are
\* buffered on the event channel
EventOrderWitness ==
    /\ Len(uiQ) = 2
    /\ uiQ[1].src = "evt" /\ uiQ[1].n = 1
    /\ uiQ[2].src = "evt" /\ uiQ[2].n = 2

(***************************************************************************)
(* Properties of the downloads store.                                      *)
(***************************************************************************)
\* C7: the store never holds two rows with the same gid, and after a save
\* get_by_gid returns the row just written: the saved state, progress and
\* timestamps under the row id save returned, whatever row the gid had before.
UpsertByGid ==
    /\ \A r1, r2 \in store : r1.gid = r2.gid => r1 = r2
    /\ dbOp.op = "save" =>
         LET d == dbOp.download
             got == get_by_gid(d.gid)
         IN /\ got # <<>>
            /\ got[1].id = dbOp.rowid
            /\ got[1].status = d.status
            /\ got[1].completed_size = d.completed_size
            /\ got[1].created_at = d.created_at
            /\ got[1].completed_at = d.completed_at

\* a save has replaced the row of its gid with one of further progress
UpsertWitness ==
    /\ dbOp.op = "save"
    /\ dbOp.replaced = 1
    /\ dbOp.download.completed_size = 1
    /\ Cardinality(store) = 2

CompletedRank(d) == IF d.completed_at = <<>> THEN 0 ELSE d.completed_at[1]

\* the record is the stored row of its gid, read back
IsStored(d) == \E r \in store : r.gid = d.gid /\ d = row_to_download(r)

Persisted == {row_to_download(r) : r \in store}

\* an incomplete HTTP record with a source URL or Magnet record with a magnet URI
Restorable(download) ==
    /\ download.status \notin {"Complete", "Removed"}
    /\ \/ download.download_type = "Http" /\ download.url # <<>>
       \/ download.download_type = "Magnet" /\ download.magnet_uri # <<>>

\* the submission restoration owes a restorable record
Resubmission(download) ==
    IF download.download_type = "Http"
      THEN [kind |-> "AddDownload", arg |-> download.url[1], gid |-> download.gid]
      ELSE [kind |-> "AddMagnet", arg |-> download.magnet_uri[1], gid |-> download.gid]

\* the submissions owed for a result of get_incomplete, in its order
Resubmissions(incomplete) ==
    LET restorable == SelectSeq(incomplete, Restorable)
    IN [i \in 1..Len(restorable) |-> Resubmission(restorable[i])]

\* C10: restoration submits, in get_incomplete order, exactly one AddDownload
\* with its URL for every incomplete HTTP record that has one and exactly one
\* AddMagnet with its URI for every incomplete Magnet record that has one, and
\* nothing for Torrent, FTP, Complete or Removed records.
RestorationExact ==
    /\ \A i \in 1..Len(submitted) :
         \E download \in Persisted :
            /\ download.gid = submitted[i].gid
            /\ download.download_type \notin {"Torrent", "Ftp"}
            /\ download.status \notin {"Complete", "Removed"}
    /\ \A i, j \in 1..Len(submitted) : submitted[i].gid = submitted[j].gid => i = j
    /\ \E incomplete \in get_incomplete :
         LET owed == Resubmissions(incomplete)
         IN /\ Len(submitted) <= Len(owed)
            /\ submitted = SubSeq(owed, 1, Len(submitted))
            /\ restorePc \in {"poll", "poll2", "done"} => submitted = owed
    /\ restorePc \in {"poll", "poll2", "done"} =>
         \A download \in Persisted :
            Restorable(download) =>
               \E i \in 1..Len(submitted) : submitted[i] = Resubmission(download)

\* restoration has finished: it resubmitted the one failed download that can be
\* restored and passed over a paused FTP or torrent record that has a URL
RestorationWitness ==
    /\ restorePc = "done"
    /\ Len(submitted) = 1
    /\ \E download \in Persisted :
         /\ download.gid # submitted[1].gid
         /\ download.download_type \in {"Ftp", "Torrent"}
         /\ download.status = "Paused"
         /\ download.url # <<>>
    /\ \E download \in Persisted :
         /\ download.gid = submitted[1].gid
         /\ download.status = "Error"

(***************************************************************************)
(* Properties of the tracker list.                                         *)
(***************************************************************************)
\* C11: replace_all is all-or-nothing: whenever the connection is not held by
\* a running replace_all, the tracker list and the last-updated value are those
\* of the last successful commit (so after a failed delete, insert, update or
\* commit they are those from before the call), and what a reader gets through
\* the same handle is never a partially replaced list.
ReplaceAllAtomic ==
    /\ dbLock = "free" =>
         /\ trackers = committed.trackers
         /\ last_updated = committed.last_updated
    /\ trackerOp.op = "get_enabled" => trackerOp.result = committed.trackers
    /\ trackerOp.op = "get_last_updated" => trackerOp.result = committed.last_updated

\* a replace_all has failed and returned while a two-tracker list and its
\* timestamp from an earlier successful replace_all were stored
ReplaceAllWitness ==
    /\ trackerOp = [op |-> "replace_all", result |-> "Err"]
    /\ Len(committed.trackers) = 2
    /\ committed.last_updated # <<>>
    /\ Len(txInput) = 0
    /\ dbLock = "free"

(***************************************************************************)
(* Properties of the downloads store, continued.                           *)
(***************************************************************************)
\* C12: in every store reachable by save, update_status, mark_completed,
\* delete and clear_history, each row whose state is Complete has a completion
\* timestamp.
CompleteHasTimestamp ==
    \A r \in store : r.status = "complete" => r.completed_at # <<>>

(***************************************************************************)
(* Properties of the front-ends' message handling.                         *)
(***************************************************************************)
\* C13: whenever a front-end has handled DownloadCompleted(record) and its
\* store call, if any, did not fail, the store holds a row for the record.
CompletionPersisted ==
    (uiOp.kind = "DownloadCompleted" /\ uiOp.db # "err") =>
       \E r \in store : r.gid = uiOp.gid

\* C14: once a front-end has handled DownloadRemoved(gid) and its store call,
\* if any, did not fail, the store holds no row with that gid.
RemovedNotStored ==
    (uiOp.kind = "DownloadRemoved" /\ uiOp.db # "err") =>
       ~ \E r \in store : r.gid = uiOp.gid

\* the completion of gid has reached the UI: it is in the completed list (GTK)
\* or download_completed was the signal raised last (Qt)
CompletionDelivered(gid) ==
    \/ \E i \in 1..Len(completed_list) : completed_list[i] = gid
    \/ /\ signals # <<>>
       /\ signals[Len(signals)] = [name |-> "DownloadCompleted", gid |-> gid]

\* C15: when the save fails while a front-end handles DownloadCompleted, the
\* failure is only logged: the completion is still delivered to the UI and the
\* front-end is ready to handle the next message.
SaveFailureOnlyLogged ==
    (uiOp.kind = "DownloadCompleted" /\ uiOp.db = "err") =>
       /\ CompletionDelivered(uiOp.gid)
       /\ dbOp.op = "save_err"
       /\ nextUi <= MaxUiMsgs => ENABLED handle_notice("Error")

\* GTK has handled a DownloadCompleted whose save failed, shows the download
\* as completed although the store has no row for it, and has gone on to
\* handle a later Error message
SaveFailureWitness ==
    /\ frontend = "gtk"
    /\ dbOp.op = "save_err"
    /\ store = {}
    /\ uiOp.kind = "Error"
    /\ completed_list # <<>>

(***************************************************************************)
(* Properties of the adapter.                                              *)
(***************************************************************************)
\* C16: ResumeAll issues an engine resume only for downloads that were Paused
\* or in Error when resume_all read the engine's list, PauseAll issues an
\* engine pause only for downloads that were in the engine's active set when
\* pause_all read it, each at most once, and no other download receives a
\* pause or resume call.
BulkTargetsOnly ==
    /\ \A i \in 1..Len(calls) :
         /\ calls[i].op = "resume" => atSnapshot[calls[i].id] \in {"Paused", "Error"}
         /\ calls[i].op = "pause" => atSnapshot[calls[i].id] \in ActiveStates
    /\ \A i, j \in 1..Len(calls) : calls[i].id = calls[j].id => i = j
    /\ adapterPc = "resume_all" => \A i \in 1..Len(calls) : calls[i].op = "resume"
    /\ adapterPc = "pause_all" => \A i \in 1..Len(calls) : calls[i].op = "pause"

\* resume_all has returned: it resumed the paused and the failed download and
\* passed over the completed one
BulkTargetsWitness ==
    /\ adapterPc = "idle"
    /\ Len(calls) = 2
    /\ \A i \in 1..2 : calls[i].op = "resume"
    /\ \E g \in EngineGids : atSnapshot[g] = "Completed"
    /\ \E g \in EngineGids : atSnapshot[g] = "Paused" /\ engineStates[g] # "Paused"
    /\ \E g \in EngineGids : atSnapshot[g] = "Error"

\* the probe of the request handled last got a response that the heuristic rejects
Rejected ==
    /\ addOp.n > 0
    /\ ~(addOp.probe.head # "success" /\ addOp.probe.get = "error")
    /\ looks_like_html_download(addOp.probe.final_url, addOp.probe.content_type,
                                addOp.probe.content_disp)

\* C17 as stated: when URL resolution rejects an AddDownload request, no
\* transfer is created, add_http is not invoked, the caller gets an
\* Invalid-Input error naming `url`, and no message is emitted for it.
RejectionNotEmitted ==
    [][Rejected' /\ addOp'.n # addOp.n =>
         /\ transfers' = transfers
         /\ add_http_calls' = add_http_calls
         /\ ~addOp'.ok /\ addOp'.error = "InvalidInput" /\ addOp'.field = "url"
         /\ addOp'.reply = <<>>]_vars

\* C17 amended: when URL resolution rejects an AddDownload request, no
\* transfer is created, add_http is not invoked, add_download returns an
\* Invalid-Input error naming `url` to handle_command, and handle_command
\* sends exactly one Error message (no DownloadAdded) to the UI.
RejectionReturned ==
    [][Rejected' /\ addOp'.n # addOp.n =>
         /\ transfers' = transfers
         /\ add_http_calls' = add_http_calls
         /\ ~addOp'.ok /\ addOp'.error = "InvalidInput" /\ addOp'.field = "url"
         /\ addOp'.reply = <<"Error">>]_vars

\* a second request has been rejected by the heuristic after a first one had
\* created a transfer: there is still one transfer and one add_http call
RejectionWitness ==
    /\ Rejected
    /\ addOp.n = 2
    /\ addOp.error = "InvalidInput"
    /\ Cardinality(transfers) = 1
    /\ add_http_calls = 1

\* the part of a header value before its first ";", in lower case
MainToken(txt) ==
    LET lower == to_ascii_lowercase(txt)
        stop == IF \E i \in 1..Len(lower) : lower[i] = ";"
                  THEN CHOOSE i \in 1..Len(lower) :
                         lower[i] = ";" /\ \A j \in 1..(i - 1) : lower[j] # ";"
                  ELSE Len(lower) + 1
    IN SubSeq(lower, 1, stop - 1)

\* C18: looks_like_html_download rejects a response exactly when its content
\* type is text/html, its disposition is not attachment, and the URL does not
\* end in .htm or .html.
HtmlHeuristicExact ==
    addOp.n > 0 =>
      (looks_like_html_download(addOp.probe.final_url, addOp.probe.content_type,
                                addOp.probe.content_disp)
       <=> /\ addOp.probe.content_type # <<>>
           /\ MainToken(addOp.probe.content_type[1]) = <<"t", "e", "x", "t", "/", "h", "t", "m", "l">>
           /\ ~(/\ addOp.probe.content_disp # <<>>
                /\ MainToken(addOp.probe.content_disp[1]) = <<"a", "t", "t", "a", "c", "h", "m", "e", "n", "t">>)
           /\ ~ends_with(to_ascii_lowercase(addOp.probe.final_url), <<".", "h", "t", "m", "l">>)
           /\ ~ends_with(to_ascii_lowercase(addOp.probe.final_url), <<".", "h", "t", "m">>))

\* the numeric prefix and the unit exponent of the argument of the last call:
\* the text without surrounding blanks and without a final K, M or G in
\* either case
SpeedPrefix ==
    LET t == trim(speedOp.s)
    IN IF t # <<>> /\ t[Len(t)] \in {"k", "K", "m", "M", "g", "G"}
         THEN SubSeq(t, 1, Len(t) - 1) ELSE t

SpeedExponent ==
    LET t == trim(speedOp.s)
    IN IF t = <<>> THEN 0
       ELSE IF t[Len(t)] \in {"k", "K"} THEN 1
       ELSE IF t[Len(t)] \in {"m", "M"} THEN 2
       ELSE IF t[Len(t)] \in {"g", "G"} THEN 3
       ELSE 0

\* n * 1024^k, exactly
RECURSIVE Scaled(_, _)
Scaled(n, k) == IF k = 0 THEN n ELSE Scaled(Mul(n, 1024), k - 1)

\* C19: parse_speed returns n for a plain decimal string n, n*1024, n*1024^2,
\* n*1024^3 for n followed by K, M, G in either case, and no value whenever
\* the numeric prefix fails to parse as an unsigned integer.
ParseSpeedExact ==
    speedOp.n > 0 =>
      IF parse_u64(SpeedPrefix) = <<>>
        THEN speedOp.result = [kind |-> "None", value |-> <<>>]
        ELSE speedOp.result =
               [kind |-> "Some", value |-> Scaled(parse_u64(SpeedPrefix)[1], SpeedExponent)]

\* a stored value that does not parse as a value of the field's type: a bool is
\* written true or false, an integer or f64 is what str::parse accepts, and
\* every text is a String
Unparseable(type, value) ==
    CASE type = "u32" -> parse_u32(value) = <<>>
      [] type = "u64" -> parse_u64(value) = <<>>
      [] type = "f64" -> parse_f64(value) = <<>>
      [] type = "bool" -> value \notin {<<"t", "r", "u", "e">>, <<"f", "a", "l", "s", "e">>}
      [] OTHER -> FALSE

\* C20: whatever rows the settings table holds, the Settings value load returns
\* has the hardcoded default in every field whose key has no row and in every
\* field whose stored value does not parse as the field's type.
LoadFallsBackToDefault ==
    settingsOp.n > 0 =>
      \A field \in DOMAIN SettingsFields :
         (\/ field \notin DOMAIN settings_table
          \/ Unparseable(SettingsFields[field], settings_table[field]))
           => settingsOp.result[field] =
                Settings_default(settingsOp.home, settingsOp.download_dir)[field]

RestoredGidKept ==
    \A i \in 1..Len(uiQ) :
       (uiQ[i].kind = "DownloadAdded" /\ uiQ[i].n <= Len(submitted)) =>
          uiQ[i].gid = submitted[uiQ[i].n].gid

\* C23: a row whose status is Complete stays Complete as long as it exists: no
\* operation of the store leaves a row of the same gid with another status.
CompleteIsFinal ==
    [][\A r \in store : r.status = "complete" =>
          \A q \in store' : q.gid = r.gid => q.status = "complete"]_vars

\* C24: however often the entry point of the front-end is invoked, at most one
\* bridge loop is created: DownloadService::spawn is called at most once.
OneBridgeLoop == entry.loops <= 1

\* the entry point was invoked again after it had created the bridge loop
OneBridgeLoopWitness ==
    /\ entry.loops = 1
    /\ entry.calls = MaxActivations
    /\ entry.pc = "idle"
    /\ entry.window \/ entry.app_state

\* C25: in the GTK front-end the UI thread is never parked in send_blocking on
\* a full command channel while the bridge loop is suspended in send().await
\* on a full event channel, start-up restoration included.
NeverBothBlocked ==
    ~(/\ frontend = "gtk"
      /\ uiPc = "blocked" /\ Len(cmdQ) = CmdCap
      /\ pc = "send" /\ Len(uiQ) = UiCap)

\* C26: in the Qt front-end no step of start-up, restoration and the handling
\* of the messages it brings about included, adds an incomplete row to the
\* store: the number of incomplete rows never grows.
IncompleteRowsKept ==
    [][frontend = "qt" =>
         Cardinality({r \in store' : IsIncomplete(r)})
           <= Cardinality({r \in store : IsIncomplete(r)})]_vars

\* C27: resolve_http_url issues the ranged GET probe only if the HEAD probe
\* failed or returned a non-success status, it returns a resolved URL only
\* when one of the two probes returned a success status, and it returns an
\* error if neither probe succeeds.
ResolvedOnlyOnSuccess ==
    addOp.n > 0 =>
      /\ addOp.get_sent => addOp.probe.head # "success"
      /\ addOp.resolved =>
            \/ addOp.probe.head = "success"
            \/ addOp.get_sent /\ addOp.probe.get = "success"
      /\ (addOp.probe.head # "success" /\ addOp.probe.get # "success") => ~addOp.resolved

\* C28: each Remove command handled by the loop produces exactly one message,
\* DownloadRemoved(gid) if the engine cancel succeeded and Error otherwise, and
\* the engine's own Removed event produces no message, so that every
\* DownloadRemoved on the event channel answers a command and no command is
\* answered twice.
RemoveRepliedOnce ==
    /\ handled.kind = "Remove" =>
         handled.reply = IF handled.err THEN <<"Error">> ELSE <<"DownloadRemoved">>
    /\ received.kind = "Removed" => received.reply = <<>>
    /\ \A i \in 1..Len(uiQ) :
         uiQ[i].kind = "DownloadRemoved" =>
           /\ uiQ[i].src = "cmd"
           /\ \A j \in 1..Len(uiQ) : (uiQ[j].kind = "DownloadRemoved" /\ uiQ[j].n = uiQ[i].n) => i = j
    /\ (pc = "send" /\ pending.kind = "DownloadRemoved") => pending.src = "cmd"

\* a Remove command was answered with DownloadRemoved, the engine's Removed
\* event for it was received afterwards and the answer is still on the channel
RemoveRepliedWitness ==
    /\ handled.kind = "Remove" /\ ~handled.err
    /\ received.kind = "Removed"
    /\ \E i \in 1..Len(uiQ) : uiQ[i].kind = "DownloadRemoved"

\* C29: EngineReady is emitted exactly once per bridge loop and is the first
\* message the loop places on the event channel: until the channel has
\* accepted it the channel is empty and has accepted no command-derived and no
\* engine-derived message, and while the UI is alive the loop has handled no
\* command and no event before it, whatever was enqueued before the loop
\* started.
EngineReadyFirst ==
    /\ emitted.init <= 1
    /\ emitted.init = 0 => uiQ = <<>> /\ emitted.cmd = 0 /\ emitted.evt = 0
    /\ (emitted.init = 0 /\ uiPc # "quit") =>
         /\ handled.n = 0 /\ received.n = 0
         /\ pc = "start" \/ (pc = "send" /\ pending.kind = "EngineReady")
    /\ (pc \notin {"start", "send"} /\ uiPc # "quit") => emitted.init = 1

\* the loop has announced itself and nothing else, although the command
\* channel is full and an engine event is waiting
EngineReadyWitness ==
    /\ pc = "select"
    /\ uiQ = <<UiMessage("EngineReady", 0, "init", 0)>>
    /\ handled.n = 0 /\ received.n = 0
    /\ Len(cmdQ) = CmdCap
    /\ engQ # <<>>

\* the command numbered n is buffered on the command channel with no Shutdown
\* ahead of it
QueuedBeforeShutdown(n) ==
    \E i \in 1..Len(cmdQ) :
       /\ cmdQ[i].n = n
       /\ \A j \in 1..(i - 1) : cmdQ[j].kind # "Shutdown"

\* the UI keeps draining the event channel: the channel is never full for ever
UiKeepsDraining == []<>(Len(uiQ) < UiCap)

\* C30: provided the handlers terminate and the UI keeps draining the event
\* channel, every command enqueued before Shutdown is eventually dequeued and
\* handled by the bridge loop, even while the engine keeps emitting events.
CommandsEventuallyHandled ==
    UiKeepsDraining =>
      \A n \in 1..MaxCmds : QueuedBeforeShutdown(n) ~> (handled.n = n)

\* the last command was handled after the engine's event numbers had wrapped
\* around, with another event already waiting
CommandsHandledWitness ==
    /\ handled.n = MaxCmds
    /\ received.n = MaxEvents
    /\ nextEvt = 1
    /\ engQ # <<>>

\* the message a step of the loop hands to the event channel: the one the
\* channel accepts, or the one the suspended send holds
HandedOver ==
    IF pc' = "send" THEN <<pending'>>
    ELSE IF Len(uiQ') > Len(uiQ) THEN <<uiQ'[Len(uiQ')]>>
    ELSE <<>>

\* C31: each engine Failed event yields exactly one DownloadFailed message
\* carrying that event's gid and error text; a Completed or Progress event
\* yields one DownloadCompleted or DownloadUpdated message for its gid only if
\* the engine still reports a status for the gid and otherwise nothing;
\* Removed and all other engine events yield no message.
EventTranslated ==
    [][received'.n # received.n =>
         LET ev == Head(engQ)
             known == ev.gid \in engine
         IN /\ received'.reply =
                  CASE ev.kind = "Failed" -> <<"DownloadFailed">>
                    [] ev.kind = "Completed" /\ known -> <<"DownloadCompleted">>
                    [] ev.kind = "Progress" /\ known -> <<"DownloadUpdated">>
                    [] OTHER -> <<>>
            /\ uiPc # "quit" => Len(HandedOver) = Len(received'.reply)
            /\ \A i \in 1..Len(HandedOver) :
                 /\ HandedOver[i].kind = received'.reply[1]
                 /\ HandedOver[i].gid = ev.gid
                 /\ HandedOver[i].src = "evt"
                 /\ ev.kind = "Failed" => HandedOver[i].error = ev.error]_vars

\* a Failed event was translated last, and before it an event about a
\* download that the engine no longer reports, after its removal, yielded
\* nothing
EventTranslatedWitness ==
    /\ received.kind = "Failed" /\ received.n = 2
    /\ emitted.evt = 2
    /\ engine = {} /\ handled.kind = "Remove" /\ ~handled.err
    /\ \E i \in 1..Len(uiQ) : uiQ[i].kind = "DownloadFailed" /\ uiQ[i].error = <<"4", "0", "4">>
    /\ ~ \E i \in 1..Len(uiQ) : uiQ[i].n = 1 /\ uiQ[i].src = "evt"

\* C32: in the Qt front-end's set_setting, if the store write fails the
\* in-memory settings are left unchanged and no UpdateConfig command is sent;
\* if it succeeds, exactly one UpdateConfig command built from the updated
\* in-memory settings, which differ from the earlier ones in the field of the
\* key at most, is submitted: it is enqueued at once, or held by the parked
\* send_blocking and enqueued when the channel has room.
SetSettingSubmitsOnce ==
    /\ [][controller'.n # controller.n =>
            IF ~controller'.ok
              THEN /\ controller'.settings = controller.settings
                   /\ cmdQ' = cmdQ /\ uiPending' = uiPending /\ nextCmd' = nextCmd
              ELSE LET cmd == [kind |-> "UpdateConfig", gid |-> 0,
                               arg |-> <<"config", controller'.settings>>, n |-> nextCmd]
                   IN /\ \A f \in DOMAIN controller.settings :
                            f # controller'.key => controller'.settings[f] = controller.settings[f]
                      /\ nextCmd' = nextCmd + 1
                      /\ \/ cmdQ' = Append(cmdQ, cmd) /\ uiPending' = uiPending
                         \/ /\ Len(cmdQ) = CmdCap /\ cmdQ' = cmdQ
                            /\ uiPc' = "blocked" /\ uiPending' = cmd]_vars
    /\ [][uiPc = "blocked" /\ uiPc' = "idle" => cmdQ' = Append(cmdQ, uiPending)]_vars

\* two calls of set_setting have each enqueued an UpdateConfig command, of
\* different settings, and a third call, whose store write failed, has left
\* the settings and the command channel as they were
SetSettingWitness ==
    /\ controller.n = MaxSets
    /\ ~controller.ok
    /\ nextCmd = MaxSets
    /\ Len(cmdQ) = 2
    /\ cmdQ[1].arg # cmdQ[2].arg
    /\ cmdQ[2].arg = <<"config", controller.settings>>
    /\ controller.key \notin DOMAIN settings_table

\* C33: for every Settings value s and every prior content of the settings
\* table, SettingsDb::save(s) followed by SettingsDb::load returns s, also
\* when the optional proxy user and password are absent in s.
SaveLoadRoundTrip ==
    (settingsOp.n > 0 /\ settingsOp.saved # <<>>) =>
       settingsOp.result = settingsOp.saved[1]

\* C34: for every engine status, convert_status yields Waiting for Queued,
\* Active for Connecting, Downloading and Seeding, Paused for Paused, Complete
\* for Completed and Error for Error, never Removed, and the record carries
\* an error message if and only if its state is Error.
ConvertStatusExact ==
    \A i \in 1..Len(calls) :
       calls[i].op = "get_status" =>
         LET state == calls[i].status.state
             download == calls[i].download
         IN /\ state = "Queued" => download.status = "Waiting"
            /\ state \in {"Connecting", "Downloading", "Seeding"} => download.status = "Active"
            /\ state = "Paused" => download.status = "Paused"
            /\ state = "Completed" => download.status = "Complete"
            /\ state = "Error" => download.status = "Error"
            /\ download.status # "Removed"
            /\ download.error_message # <<>> <=> download.status = "Error"
            /\ download.status = "Error" => download.error_message = <<calls[i].status.message>>

\* a download that failed after the adapter was created, with the empty text
\* as its message, has been converted
ConvertStatusWitness ==
    /\ Len(calls) = MaxStatusCalls
    /\ calls[1].op = "get_status" /\ calls[1].status.state = "Error"
    /\ atSnapshot[calls[1].id] # "Error"
    /\ calls[1].download.status = "Error"
    /\ calls[1].download.error_message = <<<<>>>>

\* C35: needs_update returns true exactly when no fetch_trackers has
\* succeeded and no set_trackers has been called yet, or at least 24 hours
\* have elapsed since the last of them; a failed fetch_trackers changes
\* neither the held tracker list nor the last-update time.
StaleAfterADay ==
    /\ [](updater.op = "needs_update" =>
            (updater.result <=>
               \/ updater.done = <<>>
               \/ updater.now - updater.done[1] >= 24 * TicksPerHour))
    /\ [][updater'.op = "fetch_err" =>
            /\ updater'.trackers = updater.trackers
            /\ updater'.last_update = updater.last_update]_vars

\* needs_update has returned true exactly 24 hours after a list was fetched,
\* a fetch that failed in between having left the list in place
StaleWitness ==
    /\ updater.op = "needs_update" /\ updater.result
    /\ updater.done = <<1>>
    /\ updater.now = 1 + 24 * TicksPerHour
    /\ updater.trackers # <<>>
    /\ updater.failed

\* C36: for every input whose numeric prefix parses as a 64-bit unsigned
\* integer n, the call returns a value and the value is the exact product of n
\* and the multiplier of the suffix: the multiplication neither wraps around
\* nor aborts when the product exceeds the 64-bit range.
ProductNeverWraps ==
    (speedOp.n > 0 /\ parse_u64(SpeedPrefix) # <<>>) =>
      /\ speedOp.result.kind # "panic"
      /\ speedOp.result.kind = "Some"
      /\ speedOp.result.value = Scaled(parse_u64(SpeedPrefix)[1], SpeedExponent)
====
